---- MODULE Spec2Model ----
(***************************************************************************)
(* A model of the wuff WOFF2/WOFF1 decoder (nicoburns/wuff).               *)
(*                                                                         *)
(* Byte strings are sequences of naturals in 0..255, indexed from 1.       *)
(* Every fallible function returns a record with a field res that is       *)
(* "Ok", "Err" (the Rust Err(WuffErr) value) or "Panic" (an unwrap, an     *)
(* assert!, an out-of-range slice or index, or Buf::advance past the end:  *)
(* the decode aborts instead of returning).                                *)
(***************************************************************************)
EXTENDS Integers, Sequences, FiniteSets, TLC

VARIABLES
  call,     \* the function under test and its arguments (pure-function specifications)
  ret,      \* its return value, NoRet before the call
  raw,      \* raw_woff_data: the input of decompress_woff2_with_brotli
  brotli,   \* what the injected decompressor returns when it is called
  pc,       \* position inside decompress_woff2_with_brotli
  st,       \* the locals of decompress_woff2_with_brotli / reconstruct_font
  out,      \* the output Vec<u8>
  outcome   \* how the decode ended: NoRet (running), Ok, Err, or Panic (abort)

vars == <<call, ret, raw, brotli, pc, st, out, outcome>>

---------------------------------------------------------------------------
(* Integer widths and byte-level helpers                                   *)

U16 == 2^16

\* usize -> u32 and u32 -> usize casts.  Every length and offset of the model
\* is far below 2^31 (the model checker's integers are 32-bit), where the cast
\* changes nothing; 32-bit quantities that do wrap (checksums) are kept as
\* words, see W32 below.
as_u32(n) == n

Err == [res |-> "Err"]
Panic == [res |-> "Panic"]
NoRet == [res |-> "none"]

Min(a, b) == IF a < b THEN a ELSE b
Max(a, b) == IF a > b THEN a ELSE b

\* s[from+1 .. to] in Rust's half-open, zero-based slice notation s[from..to]
Slice(s, from, to) == SubSeq(s, from + 1, to)
DropN(s, n) == SubSeq(s, n + 1, Len(s))
Zeros(n) == [i \in 1..n |-> 0]

RECURSIVE be_value(_)
\* from_be_bytes: the big-endian value of a byte string
be_value(b) ==
  IF Len(b) = 0 THEN 0
  ELSE be_value(SubSeq(b, 1, Len(b) - 1)) * 256 + b[Len(b)]

\* BufMut::put_u8 / put_u16 / put_u32: the big-endian bytes of a value
put_u8(v) == << v % 256 >>
put_u16(v) == << (v \div 256) % 256, v % 256 >>
put_u32(v) ==
  << (v \div 2^24) % 256, (v \div 2^16) % 256, (v \div 256) % 256, v % 256 >>
\* put_i16(v as i16): the two's complement truncation of v to 16 bits
put_i16(v) == put_u16(v % U16)

\* i16::from_be_bytes / as i16: reinterpret a u16 as a signed value
as_i16(u) == IF u >= 2^15 THEN u - U16 ELSE u

\* Buf::try_get_u8 / u16 / u32 on a slice: Err when fewer than n bytes remain
try_get(buf, n) ==
  IF Len(buf) < n THEN Err
  ELSE [res |-> "Ok", v |-> be_value(SubSeq(buf, 1, n)), rest |-> DropN(buf, n)]

try_get_u8(buf) == try_get(buf, 1)
try_get_u16(buf) == try_get(buf, 2)
try_get_u32(buf) == try_get(buf, 4)

try_get_i16(buf) ==
  LET r == try_get(buf, 2)
  IN IF r.res # "Ok" THEN r ELSE [r EXCEPT !.v = as_i16(r.v)]

\* Buf::advance on a slice: panics when cnt > remaining
advance(buf, cnt) ==
  IF cnt > Len(buf) THEN Panic ELSE [res |-> "Ok", rest |-> DropN(buf, cnt)]

RECURSIVE try_get_all(_, _)
\* a run of fixed-width big-endian reads, each one failing on a short input
try_get_all(buf, widths) ==
  IF Len(widths) = 0 THEN [res |-> "Ok", vs |-> << >>, rest |-> buf]
  ELSE LET r == try_get(buf, Head(widths))
       IN IF r.res # "Ok" THEN Err
          ELSE LET t == try_get_all(r.rest, Tail(widths))
               IN IF t.res # "Ok" THEN Err
                  ELSE [res |-> "Ok", vs |-> <<r.v>> \o t.vs, rest |-> t.rest]

\* rounds down to a multiple of 4
Round4_down(value) == (value \div 4) * 4

\* Round4!: round up to a multiple of 4 (checked_add never overflows a usize here)
Round4(value) == ((value + 3) \div 4) * 4

\* Vec::resize(Round4!(len), 0)
PadTo4(s) == s \o Zeros(Round4(Len(s)) - Len(s))

(* A u32 that may use all 32 bits is the pair <<high half, low half>> of   *)
(* its 16-bit halves, so that arithmetic modulo 2^32 stays exact.          *)

W32(n) == << (n \div U16) % U16, n % U16 >>        \* n a small natural
W32Zero == <<0, 0>>

\* u32::from_be_bytes of four bytes
w32_from_be_bytes(b) == << b[1] * 256 + b[2], b[3] * 256 + b[4] >>

\* BufMut::put_u32 of a word
put_w32(w) == put_u16(w[1]) \o put_u16(w[2])

\* u32::wrapping_add
wrapping_add(a, b) ==
  LET lo == a[2] + b[2]
      hi == a[1] + b[1] + (lo \div U16)
  IN << hi % U16, lo % U16 >>

\* u32::wrapping_sub
wrapping_sub(a, b) ==
  LET lo == a[2] - b[2]
      borrow == IF lo < 0 THEN 1 ELSE 0
      hi == a[1] - b[1] - borrow
  IN << hi % U16, lo % U16 >>

RECURSIVE compute_checksum_whole_words(_)
\* wrapping sum of the whole big-endian u32 words, a trailing partial word left out
compute_checksum_whole_words(buf) ==
  IF Len(buf) < 4 THEN W32Zero
  ELSE wrapping_add(w32_from_be_bytes(SubSeq(buf, 1, 4)),
                    compute_checksum_whole_words(DropN(buf, 4)))

RECURSIVE compute_checksum(_)
\* wrapping sum of big-endian u32 words, a trailing partial word zero-padded
compute_checksum(buf) ==
  IF Len(buf) = 0 THEN W32Zero
  ELSE IF Len(buf) < 4 THEN w32_from_be_bytes(buf \o Zeros(4 - Len(buf)))
  ELSE wrapping_add(w32_from_be_bytes(SubSeq(buf, 1, 4)),
                    compute_checksum(DropN(buf, 4)))

---------------------------------------------------------------------------
(* Tags                                                                    *)

\* Tag::new / Tag::from_u32: a tag is the big-endian u32 of its four bytes
TagOf(bytes) == be_value(bytes)

WOFF1_SIG == TagOf(<<119, 111, 70, 70>>)               \* b"woFF"
WOFF2_SIG == TagOf(<<119, 111, 70, 50>>)               \* b"woF2"
TTC_COLLECTION_FLAVOR == TagOf(<<116, 116, 99, 102>>)  \* b"ttcf"
HEAD == TagOf(<<104, 101, 97, 100>>)
HHEA == TagOf(<<104, 104, 101, 97>>)
HMTX == TagOf(<<104, 109, 116, 120>>)
GLYF == TagOf(<<103, 108, 121, 102>>)
LOCA == TagOf(<<108, 111, 99, 97>>)
POST == TagOf(<<112, 111, 115, 116>>)

\* the 63 known table tags, in the order of the WOFF2 specification
KNOWN_TABLE_TAGS == <<
  TagOf(<<99, 109, 97, 112>>),  \*  0 cmap
  TagOf(<<104, 101, 97, 100>>),  \*  1 head
  TagOf(<<104, 104, 101, 97>>),  \*  2 hhea
  TagOf(<<104, 109, 116, 120>>),  \*  3 hmtx
  TagOf(<<109, 97, 120, 112>>),  \*  4 maxp
  TagOf(<<110, 97, 109, 101>>),  \*  5 name
  TagOf(<<79, 83, 47, 50>>),  \*  6 OS/2
  TagOf(<<112, 111, 115, 116>>),  \*  7 post
  TagOf(<<99, 118, 116, 32>>),  \*  8 cvt 
  TagOf(<<102, 112, 103, 109>>),  \*  9 fpgm
  TagOf(<<103, 108, 121, 102>>),  \* 10 glyf
  TagOf(<<108, 111, 99, 97>>),  \* 11 loca
  TagOf(<<112, 114, 101, 112>>),  \* 12 prep
  TagOf(<<67, 70, 70, 32>>),  \* 13 CFF 
  TagOf(<<86, 79, 82, 71>>),  \* 14 VORG
  TagOf(<<69, 66, 68, 84>>),  \* 15 EBDT
  TagOf(<<69, 66, 76, 67>>),  \* 16 EBLC
  TagOf(<<103, 97, 115, 112>>),  \* 17 gasp
  TagOf(<<104, 100, 109, 120>>),  \* 18 hdmx
  TagOf(<<107, 101, 114, 110>>),  \* 19 kern
  TagOf(<<76, 84, 83, 72>>),  \* 20 LTSH
  TagOf(<<80, 67, 76, 84>>),  \* 21 PCLT
  TagOf(<<86, 68, 77, 88>>),  \* 22 VDMX
  TagOf(<<118, 104, 101, 97>>),  \* 23 vhea
  TagOf(<<118, 109, 116, 120>>),  \* 24 vmtx
  TagOf(<<66, 65, 83, 69>>),  \* 25 BASE
  TagOf(<<71, 68, 69, 70>>),  \* 26 GDEF
  TagOf(<<71, 80, 79, 83>>),  \* 27 GPOS
  TagOf(<<71, 83, 85, 66>>),  \* 28 GSUB
  TagOf(<<69, 66, 83, 67>>),  \* 29 EBSC
  TagOf(<<74, 83, 84, 70>>),  \* 30 JSTF
  TagOf(<<77, 65, 84, 72>>),  \* 31 MATH
  TagOf(<<67, 66, 68, 84>>),  \* 32 CBDT
  TagOf(<<67, 66, 76, 67>>),  \* 33 CBLC
  TagOf(<<67, 79, 76, 82>>),  \* 34 COLR
  TagOf(<<67, 80, 65, 76>>),  \* 35 CPAL
  TagOf(<<83, 86, 71, 32>>),  \* 36 SVG 
  TagOf(<<115, 98, 105, 120>>),  \* 37 sbix
  TagOf(<<97, 99, 110, 116>>),  \* 38 acnt
  TagOf(<<97, 118, 97, 114>>),  \* 39 avar
  TagOf(<<98, 100, 97, 116>>),  \* 40 bdat
  TagOf(<<98, 108, 111, 99>>),  \* 41 bloc
  TagOf(<<98, 115, 108, 110>>),  \* 42 bsln
  TagOf(<<99, 118, 97, 114>>),  \* 43 cvar
  TagOf(<<102, 100, 115, 99>>),  \* 44 fdsc
  TagOf(<<102, 101, 97, 116>>),  \* 45 feat
  TagOf(<<102, 109, 116, 120>>),  \* 46 fmtx
  TagOf(<<102, 118, 97, 114>>),  \* 47 fvar
  TagOf(<<103, 118, 97, 114>>),  \* 48 gvar
  TagOf(<<104, 115, 116, 121>>),  \* 49 hsty
  TagOf(<<106, 117, 115, 116>>),  \* 50 just
  TagOf(<<108, 99, 97, 114>>),  \* 51 lcar
  TagOf(<<109, 111, 114, 116>>),  \* 52 mort
  TagOf(<<109, 111, 114, 120>>),  \* 53 morx
  TagOf(<<111, 112, 98, 100>>),  \* 54 opbd
  TagOf(<<112, 114, 111, 112>>),  \* 55 prop
  TagOf(<<116, 114, 97, 107>>),  \* 56 trak
  TagOf(<<90, 97, 112, 102>>),  \* 57 Zapf
  TagOf(<<83, 105, 108, 102>>),  \* 58 Silf
  TagOf(<<71, 108, 97, 116>>),  \* 59 Glat
  TagOf(<<71, 108, 111, 99>>),  \* 60 Gloc
  TagOf(<<70, 101, 97, 116>>),  \* 61 Feat
  TagOf(<<83, 105, 108, 108>>)   \* 62 Sill
>>

---------------------------------------------------------------------------
(* WoffHeader::parse                                                       *)

Woff1 == 1
Woff2 == 2

\* widths of the header fields that follow the signature:
\* flavor, length, num_tables, reserved, total_sfnt_size,
\* [total_compressed_size, WOFF2 only], major_version, minor_version,
\* meta_offset, meta_length, meta_orig_length, priv_offset, priv_length
WoffHeaderWidths(woff_version) ==
  <<4, 4, 2, 2, 4>> \o (IF woff_version = Woff2 THEN <<4>> ELSE << >>)
    \o <<2, 2, 4, 4, 4, 4, 4>>

\* a missing reserved check: a plausible slip in the validation
WoffHeader_validate_noreserved(header, input_len_u32) ==
  /\ ~(header.length # input_len_u32)
  /\ ~(header.num_tables = 0)
  /\ (header.meta_offset # 0 =>
        ~(header.meta_offset >= input_len_u32
            \/ input_len_u32 - header.meta_offset < header.meta_length))
  /\ (header.priv_offset # 0 =>
        ~(header.priv_offset >= input_len_u32
            \/ input_len_u32 - header.priv_offset < header.priv_length))

\* the bail_if! checks at the end of WoffHeader::parse: TRUE when none fires
WoffHeader_validate(header, input_len_u32) ==
  /\ ~(header.length # input_len_u32)
  /\ ~(header.num_tables = 0)
  /\ ~(header.reserved # 0)
  /\ (header.meta_offset # 0 =>
        ~(header.meta_offset >= input_len_u32
            \/ input_len_u32 - header.meta_offset < header.meta_length))
  /\ (header.priv_offset # 0 =>
        ~(header.priv_offset >= input_len_u32
            \/ input_len_u32 - header.priv_offset < header.priv_length))

WoffHeader_parse(input) ==
  LET input_len == Len(input)
      input_len_u32 == as_u32(input_len)
      sig == try_get_u32(input)
  IN IF sig.res # "Ok" THEN Err
     ELSE IF sig.v \notin {WOFF1_SIG, WOFF2_SIG} THEN Err
     ELSE
       LET woff_version == IF sig.v = WOFF1_SIG THEN Woff1 ELSE Woff2
           f == try_get_all(sig.rest, WoffHeaderWidths(woff_version))
           k == IF woff_version = Woff2 THEN 1 ELSE 0
       IN IF f.res # "Ok" THEN Err
          ELSE
            LET header ==
                  [ woff_version |-> woff_version,
                    signature |-> sig.v,
                    flavor |-> f.vs[1],
                    length |-> f.vs[2],
                    num_tables |-> f.vs[3],
                    reserved |-> f.vs[4],
                    total_sfnt_size |-> f.vs[5],
                    total_compressed_size |->
                      IF woff_version = Woff2 THEN f.vs[6] ELSE 0,
                    major_version |-> f.vs[6 + k],
                    minor_version |-> f.vs[7 + k],
                    meta_offset |-> f.vs[8 + k],
                    meta_length |-> f.vs[9 + k],
                    meta_orig_length |-> f.vs[10 + k],
                    priv_offset |-> f.vs[11 + k],
                    priv_length |-> f.vs[12 + k] ]
            IN IF ~WoffHeader_validate(header, input_len_u32) THEN Err
               ELSE [res |-> "Ok", header |-> header, rest |-> f.rest]

is_collection(header) == header.flavor = TTC_COLLECTION_FLAVOR

---------------------------------------------------------------------------
(* Variable-length integers: 255UInt16 and UIntBase128                     *)

\* Option<T>: None is the empty sequence, Some(x) the one-element sequence
None == << >>
Some(x) == << x >>
is_some(o) == Len(o) = 1
unwrap(o) == o[1]

\* the 255UInt16 encoder; `as u8` keeps the low 8 bits
Write255UShort(value) ==
  IF value < 253 THEN << value >>
  ELSE IF value < 506 THEN << 255, value - 253 >>
  ELSE IF value < 762 THEN << 254, value - 506 >>
  ELSE << 253, (value \div 256) % 256, value % 256 >>

\* a 255UInt16 decoder that adds 253 for both one-more-byte codes
Read255UShort_one_code(buf) ==
  IF try_get_u8(buf).res # "Ok" THEN Err
  ELSE IF try_get_u8(buf).v = 253 THEN try_get_u16(try_get_u8(buf).rest)
  ELSE IF try_get_u8(buf).v \in {254, 255}
  THEN (IF try_get_u8(try_get_u8(buf).rest).res # "Ok" THEN Err
        ELSE [try_get_u8(try_get_u8(buf).rest) EXCEPT !.v = @ + 253])
  ELSE try_get_u8(buf)

\* the 255UInt16 decoder; buf is the unread part of the Buffer
Read255UShort(buf) ==
  LET kWordCode == 253
      kOneMoreByteCode2 == 254
      kOneMoreByteCode1 == 255
      kLowestUCode == 253
      code == try_get_u8(buf)
  IN IF code.res # "Ok" THEN Err
     ELSE IF code.v = kWordCode THEN try_get_u16(code.rest)
     ELSE IF code.v = kOneMoreByteCode1 THEN
       LET r == try_get_u8(code.rest)
       IN IF r.res # "Ok" THEN Err ELSE [r EXCEPT !.v = r.v + kLowestUCode]
     ELSE IF code.v = kOneMoreByteCode2 THEN
       LET r == try_get_u8(code.rest)
       IN IF r.res # "Ok" THEN Err ELSE [r EXCEPT !.v = r.v + kLowestUCode * 2]
     ELSE code

RECURSIVE ReadBase128_loop_wrapping(_, _, _)
\* iteration i of a UIntBase128 decoder without the overflow check: the
\* accumulator wraps modulo 2^32
ReadBase128_loop_wrapping(buf, i, result) ==
  IF i = 5 THEN Err
  ELSE IF try_get_u8(buf).res # "Ok" THEN Err
  ELSE IF i = 0 /\ try_get_u8(buf).v = 128 THEN Err
  ELSE IF try_get_u8(buf).v \div 128 = 0
  THEN [res |-> "Ok",
        v |-> << ((result[1] * 128) + (result[2] \div 512)) % U16,
                 ((result[2] % 512) * 128) + (try_get_u8(buf).v % 128) >>,
        rest |-> try_get_u8(buf).rest]
  ELSE ReadBase128_loop_wrapping(
         try_get_u8(buf).rest, i + 1,
         << ((result[1] * 128) + (result[2] \div 512)) % U16,
            ((result[2] % 512) * 128) + (try_get_u8(buf).v % 128) >>)

RECURSIVE ReadBase128_loop(_, _, _)
\* iteration i (0..4) of ReadBase128; result is the accumulator, a W32 word
ReadBase128_loop(buf, i, result) ==
  IF i = 5 THEN Err                       \* five bytes without a terminator
  ELSE
    LET code == try_get_u8(buf)
    IN IF code.res # "Ok" THEN Err
       ELSE IF i = 0 /\ code.v = 128 THEN Err           \* leading zero
       ELSE IF result[1] \div 512 # 0 THEN Err          \* result & 0xfe000000
       ELSE
         LET shifted ==                                 \* (result << 7) | (code & 0x7f)
               << ((result[1] * 128) + (result[2] \div 512)) % U16,
                  ((result[2] % 512) * 128) + (code.v % 128) >>
         IN IF code.v \div 128 = 0
            THEN [res |-> "Ok", v |-> shifted, rest |-> code.rest]
            ELSE ReadBase128_loop(code.rest, i + 1, shifted)

\* the UIntBase128 decoder; the value is a W32 word
ReadBase128(buf) == ReadBase128_loop(buf, 0, W32Zero)

\* a W32 word as a natural (the model's lengths stay below 2^31)
w32_to_nat(w) == w[1] * U16 + w[2]

\* BufVariableExt::try_get_variable_255_u16 on a slice
try_get_variable_255_u16(buf) == Read255UShort(buf)

\* BufVariableExt::try_get_variable_128_u32 on a slice
try_get_variable_128_u32(buf) ==
  LET r == ReadBase128(buf)
  IN IF r.res # "Ok" THEN Err ELSE [r EXCEPT !.v = w32_to_nat(r.v)]

\* BufVariableExt::try_read_bytes_into: move n bytes from buf to the end of dst
try_read_bytes_into(buf, n, dst) ==
  IF Len(buf) < n THEN Err
  ELSE [res |-> "Ok", rest |-> DropN(buf, n), dst |-> dst \o SubSeq(buf, 1, n)]

---------------------------------------------------------------------------
(* The WOFF2 table directory                                               *)

\* Woff2TableDirectoryEntry::parse_flags: (known tag or None, format)
parse_flags(flags) ==
  LET tag_bits == flags % 64              \* flags & 0b00111111
      format == flags \div 64             \* (flags & 0b11000000) >> 6
      tag == IF tag_bits < Len(KNOWN_TABLE_TAGS)
             THEN Some(KNOWN_TABLE_TAGS[tag_bits + 1]) ELSE None
  IN [tag |-> tag, format |-> format]

\* Woff2TableDirectoryEntry::is_transformed: both match arms test format == 0
is_transformed(table) ==
  IF table.tag \in {GLYF, LOCA} THEN table.format = 0 ELSE table.format = 0

\* Woff2TableDirectoryEntry::data_as_slice
data_as_slice(table, data) ==
  LET end == table.woff_offset + table.woff_length
  IN IF end > Len(data) THEN Err
     ELSE [res |-> "Ok", v |-> Slice(data, table.woff_offset, end)]

\* Woff2TableDirectoryEntry::parse once both lengths are read: the loca check
Woff2TableDirectoryEntry_parse_woff_length(format, tag, orig_length, woff_length) ==
  IF woff_length.res # "Ok" THEN Err
  ELSE IF tag = LOCA /\ woff_length.v # 0 THEN Err
  ELSE [res |-> "Ok",
        entry |-> [tag |-> tag, format |-> format,
                   orig_length |-> orig_length.v,
                   woff_offset |-> 0,
                   woff_length |-> woff_length.v],
        rest |-> woff_length.rest]

\* Woff2TableDirectoryEntry::parse once orig_length is read
Woff2TableDirectoryEntry_parse_orig_length(format, tag, orig_length) ==
  IF orig_length.res # "Ok" THEN Err
  ELSE Woff2TableDirectoryEntry_parse_woff_length(
         format, tag, orig_length, try_get_variable_128_u32(orig_length.rest))

\* Woff2TableDirectoryEntry::parse once the tag is known
Woff2TableDirectoryEntry_parse_tag(format, tag) ==
  IF tag.res # "Ok" THEN Err
  ELSE Woff2TableDirectoryEntry_parse_orig_length(
         format, tag.v, try_get_variable_128_u32(tag.rest))

\* Woff2TableDirectoryEntry::parse once the flags byte is read: the tag is
\* read from the input only when the flags do not name a known tag
Woff2TableDirectoryEntry_parse_flags(flags) ==
  IF flags.res # "Ok" THEN Err
  ELSE Woff2TableDirectoryEntry_parse_tag(
         parse_flags(flags.v).format,
         IF is_some(parse_flags(flags.v).tag)
         THEN [res |-> "Ok", v |-> unwrap(parse_flags(flags.v).tag), rest |-> flags.rest]
         ELSE try_get_u32(flags.rest))

\* Woff2TableDirectoryEntry::parse; woff_offset is set by the directory parser
Woff2TableDirectoryEntry_parse(input) ==
  Woff2TableDirectoryEntry_parse_flags(try_get_u8(input))

RECURSIVE Woff2TableDirectory_loop(_, _, _, _)

\* the loop body of Woff2TableDirectory::parse once entry t is parsed, and the
\* rest of the loop
Woff2TableDirectory_push(n, offset_in_woff, tables, t) ==
  IF t.res # "Ok" THEN Err
  ELSE Woff2TableDirectory_loop(
         t.rest, n - 1, offset_in_woff + t.entry.woff_length,
         Append(tables, [t.entry EXCEPT !.woff_offset = as_u32(offset_in_woff)]))

\* the loop of Woff2TableDirectory::parse: n entries left, tables parsed so far
Woff2TableDirectory_loop(input, n, offset_in_woff, tables) ==
  IF n = 0 THEN [res |-> "Ok", tables |-> tables, rest |-> input]
  ELSE Woff2TableDirectory_push(n, offset_in_woff, tables,
                                Woff2TableDirectoryEntry_parse(input))

\* Woff2TableDirectory::parse once the loop is done: the size of the
\* directory is computed as input.remaining() - initial_remaining,
\* remaining-after minus remaining-before.  With overflow checks (a debug
\* build) the subtraction panics whenever the directory consumed a byte,
\* without them it wraps and the (unused) size is wrong.
Woff2TableDirectory_size(initial_remaining, overflow_checks, r) ==
  IF r.res # "Ok" THEN Err
  ELSE IF overflow_checks /\ Len(r.rest) < initial_remaining THEN Panic
  ELSE r

\* Woff2TableDirectory::parse; overflow_checks says which build this is
Woff2TableDirectory_parse(input, num_tables, overflow_checks) ==
  Woff2TableDirectory_size(Len(input), overflow_checks,
                           Woff2TableDirectory_loop(input, num_tables, 0, << >>))

---------------------------------------------------------------------------
(* The collection directory                                                *)

\* bail_if!(table_index as usize > tables.len())
index_out_of_range(table_index, tables) == table_index > Len(tables)

\* the glyf/loca pairing check at the end of CollectionDirectoryEntry::parse:
\* TRUE when it bails
glyf_loca_not_paired(glyf_idx, loca_idx) ==
  IF is_some(glyf_idx) /\ is_some(loca_idx)
  THEN unwrap(glyf_idx) > unwrap(loca_idx) \/ unwrap(loca_idx) - unwrap(glyf_idx) # 1
  ELSE is_some(glyf_idx) \/ is_some(loca_idx)

RECURSIVE CollectionDirectoryEntry_loop(_, _, _, _)

\* the loop body of CollectionDirectoryEntry::parse once table_index is read,
\* and the rest of the loop
CollectionDirectoryEntry_index(n, tables, e, table_index) ==
  IF table_index.res # "Ok" THEN Err
  ELSE IF index_out_of_range(table_index.v, tables) THEN Err
  ELSE IF table_index.v + 1 > Len(tables) THEN Panic   \* tables[table_index]
  ELSE CollectionDirectoryEntry_loop(
         table_index.rest, n - 1, tables,
         [e EXCEPT
            !.head_idx = IF tables[table_index.v + 1].tag = HEAD
                         THEN Some(table_index.v) ELSE @,
            !.hhea_idx = IF tables[table_index.v + 1].tag = HHEA
                         THEN Some(table_index.v) ELSE @,
            !.glyf_idx = IF tables[table_index.v + 1].tag = GLYF
                         THEN Some(table_index.v) ELSE @,
            !.loca_idx = IF tables[table_index.v + 1].tag = LOCA
                         THEN Some(table_index.v) ELSE @,
            !.table_indices = Append(@, table_index.v)])

\* the loop over the table indices of one font; e is the entry built so far
CollectionDirectoryEntry_loop(input, n, tables, e) ==
  IF n = 0 THEN [res |-> "Ok", entry |-> e, rest |-> input]
  ELSE CollectionDirectoryEntry_index(n, tables, e, try_get_variable_255_u16(input))

\* CollectionDirectoryEntry::parse once the loop is done: the glyf/loca check
CollectionDirectoryEntry_parse_indices(r) ==
  IF r.res # "Ok" THEN r
  ELSE IF glyf_loca_not_paired(r.entry.glyf_idx, r.entry.loca_idx) THEN Err
  ELSE r

\* CollectionDirectoryEntry::parse once the flavor is read
CollectionDirectoryEntry_parse_flavor(tables, num_tables, flavor) ==
  IF flavor.res # "Ok" THEN Err
  ELSE IF num_tables.v = 0 THEN Err
  ELSE CollectionDirectoryEntry_parse_indices(
         CollectionDirectoryEntry_loop(
           flavor.rest, num_tables.v, tables,
           [flavor |-> flavor.v, table_indices |-> << >>,
            head_idx |-> None, hhea_idx |-> None,
            glyf_idx |-> None, loca_idx |-> None]))

\* CollectionDirectoryEntry::parse once num_tables is read
CollectionDirectoryEntry_parse_num_tables(tables, num_tables) ==
  IF num_tables.res # "Ok" THEN Err
  ELSE CollectionDirectoryEntry_parse_flavor(tables, num_tables,
                                             try_get_u32(num_tables.rest))

\* CollectionDirectoryEntry::parse
CollectionDirectoryEntry_parse(input, tables) ==
  CollectionDirectoryEntry_parse_num_tables(tables, try_get_variable_255_u16(input))

RECURSIVE CollectionDirectory_loop(_, _, _, _)

\* the loop body of CollectionDirectory::parse once font entry f is parsed
CollectionDirectory_push(n, tables, fonts, f) ==
  IF f.res # "Ok" THEN f
  ELSE CollectionDirectory_loop(f.rest, n - 1, tables, Append(fonts, f.entry))

\* the loop of CollectionDirectory::parse: n fonts left
CollectionDirectory_loop(input, n, tables, fonts) ==
  IF n = 0 THEN [res |-> "Ok", fonts |-> fonts, rest |-> input]
  ELSE CollectionDirectory_push(n, tables, fonts,
                                CollectionDirectoryEntry_parse(input, tables))

TTC_VERSION_1 == 65536     \* 0x00010000
TTC_VERSION_2 == 131072    \* 0x00020000

\* CollectionDirectory::parse once the fonts are parsed
CollectionDirectory_parse_fonts(version, r) ==
  IF r.res # "Ok" THEN r
  ELSE [res |-> "Ok", dir |-> [version |-> version.v, fonts |-> r.fonts],
        rest |-> r.rest]

\* CollectionDirectory::parse once num_fonts is read
CollectionDirectory_parse_num_fonts(tables, version, num_fonts) ==
  IF num_fonts.res # "Ok" THEN Err
  ELSE IF version.v # TTC_VERSION_1 /\ version.v # TTC_VERSION_2 THEN Err
  ELSE IF num_fonts.v = 0 THEN Err
  ELSE CollectionDirectory_parse_fonts(
         version, CollectionDirectory_loop(num_fonts.rest, num_fonts.v, tables, << >>))

\* CollectionDirectory::parse once the version is read
CollectionDirectory_parse_version(tables, version) ==
  IF version.res # "Ok" THEN Err
  ELSE CollectionDirectory_parse_num_fonts(tables, version,
                                           try_get_variable_255_u16(version.rest))

\* CollectionDirectory::parse
CollectionDirectory_parse(input, tables) ==
  CollectionDirectory_parse_version(tables, try_get_u32(input))

RECURSIVE last_index_of_tag(_, _, _)
\* the index (zero-based) of the last of the first n tables with the tag
last_index_of_tag(tables, tag, n) ==
  IF n = 0 THEN None
  ELSE IF tables[n].tag = tag THEN Some(n - 1)
  ELSE last_index_of_tag(tables, tag, n - 1)

\* CollectionDirectory::generate_for_single_font
generate_for_single_font(flavor, tables) ==
  [version |-> TTC_VERSION_1,
   fonts |-> << [flavor |-> flavor,
                 table_indices |-> [i \in 1..Len(tables) |-> i - 1],
                 head_idx |-> last_index_of_tag(tables, HEAD, Len(tables)),
                 hhea_idx |-> last_index_of_tag(tables, HHEA, Len(tables)),
                 glyf_idx |-> last_index_of_tag(tables, GLYF, Len(tables)),
                 loca_idx |-> last_index_of_tag(tables, LOCA, Len(tables))] >>]

RECURSIVE insert_sorted_by_tag(_, _, _)
\* insert idx after every element whose tag is <= its own (a stable sort step)
insert_sorted_by_tag(sorted, idx, tables) ==
  IF Len(sorted) = 0 THEN << idx >>
  ELSE IF tables[Head(sorted) + 1].tag <= tables[idx + 1].tag
       THEN << Head(sorted) >> \o insert_sorted_by_tag(Tail(sorted), idx, tables)
       ELSE << idx >> \o sorted

RECURSIVE sort_by_tag(_, _)
\* sort_by_cached_key(|idx| tables[idx].tag): a stable sort of the indices
sort_by_tag(indices, tables) ==
  IF Len(indices) = 0 THEN << >>
  ELSE insert_sorted_by_tag(
         sort_by_tag(SubSeq(indices, 1, Len(indices) - 1), tables),
         indices[Len(indices)], tables)

\* CollectionDirectory::sort_tables_within_each_font
sort_tables_within_each_font(dir, tables) ==
  [dir EXCEPT !.fonts =
     [i \in 1..Len(dir.fonts) |->
        [dir.fonts[i] EXCEPT !.table_indices = sort_by_tag(@, tables)]]]

---------------------------------------------------------------------------
(* Inputs and specification for WoffHeader::parse                          *)

\* bound: the number of bytes that follow the fixed header in a parse input
MaxTail == 2

IdlePipeline ==
  /\ raw = << >>
  /\ brotli = NoRet
  /\ pc = "idle"
  /\ st = NoRet
  /\ out = << >>
  /\ outcome = NoRet

\* the size of the fixed header that starts with signature sig
HeaderSize(sig) == IF sig = WOFF1_SIG THEN 44 ELSE 48

\* test input: the bytes of a header whose fields are f (WOFF1 headers have no
\* totalCompressedSize field)
EncodeWoffHeader(f) ==
  put_u32(f.signature) \o put_u32(f.flavor) \o put_u32(f.length)
    \o put_u16(f.num_tables) \o put_u16(f.reserved) \o put_u32(f.total_sfnt_size)
    \o (IF f.signature = WOFF1_SIG THEN << >> ELSE put_u32(f.total_compressed_size))
    \o put_u16(f.major_version) \o put_u16(f.minor_version)
    \o put_u32(f.meta_offset) \o put_u32(f.meta_length) \o put_u32(f.meta_orig_length)
    \o put_u32(f.priv_offset) \o put_u32(f.priv_length)

HeaderFields(sig, length, nt, rsv, mo, ml, po, pl) ==
  [ signature |-> sig, flavor |-> TagOf(<<0, 1, 0, 0>>), length |-> length,
    num_tables |-> nt, reserved |-> rsv, total_sfnt_size |-> 300,
    total_compressed_size |-> 7, major_version |-> 1, minor_version |-> 2,
    meta_offset |-> mo, meta_length |-> ml, meta_orig_length |-> 9,
    priv_offset |-> po, priv_length |-> pl ]

\* "wOF2" (capital O) and the all-zero tag are not accepted signatures
HeaderSignatures ==
  {WOFF1_SIG, WOFF2_SIG, TagOf(<<119, 79, 70, 50>>), TagOf(<<0, 0, 0, 0>>)}

\* a region offset relative to the input length: absent, the last byte, one
\* past the end, two past the end, or inside the header
RegionOffset(sel, input_len) ==
  CASE sel = 0 -> 0
    [] sel = 1 -> input_len - 1
    [] sel = 2 -> input_len
    [] sel = 3 -> input_len + 1
    [] OTHER -> 5

WholeHeaderInput(sig, tail, dlen, nt, rsv, ms, ml, ps, pl) ==
  LET input_len == HeaderSize(sig) + tail
      f == HeaderFields(sig, input_len + dlen, nt, rsv,
                        RegionOffset(ms, input_len), ml,
                        RegionOffset(ps, input_len), pl)
  IN [fn |-> "WoffHeader::parse", f |-> f,
      input |-> EncodeWoffHeader(f) \o Zeros(tail)]

\* whole headers followed by 0..MaxTail bytes, every validated field varied
WholeHeaderInputs ==
  { WholeHeaderInput(sig, tail, dlen, nt, rsv, ms, ml, ps, pl) :
      sig \in HeaderSignatures, tail \in 0..MaxTail, dlen \in {-1, 0, 1},
      nt \in {0, 1}, rsv \in {0, 1},
      ms \in 0..3, ml \in {0, 1, 2}, ps \in {0, 1, 2, 4}, pl \in {0, 1, 60} }

TruncatedHeaderInput(sig, keep) ==
  LET input_len == Min(keep, HeaderSize(sig))
      f == HeaderFields(sig, input_len, 1, 0, 0, 0, 0, 0)
  IN [fn |-> "WoffHeader::parse", f |-> f,
      input |-> SubSeq(EncodeWoffHeader(f), 1, input_len)]

\* headers cut short: the declared length is the cut length, so that the
\* truncation alone decides
TruncatedHeaderInputs ==
  { TruncatedHeaderInput(sig, keep) :
      sig \in HeaderSignatures, keep \in {0, 3, 4, 43, 44, 47, 48} }

HeaderInputs == WholeHeaderInputs \cup TruncatedHeaderInputs

InitHeader ==
  /\ call \in HeaderInputs
  /\ ret = NoRet
  /\ IdlePipeline

CallWoffHeaderParse ==
  /\ call.fn = "WoffHeader::parse"
  /\ ret = NoRet
  /\ ret' = WoffHeader_parse(call.input)
  /\ UNCHANGED <<call, raw, brotli, pc, st, out, outcome>>

SpecHeader == InitHeader /\ [][CallWoffHeaderParse]_vars

\* a metadata or private region: absent (offset 0) or inside the input
RegionInside(offset, length, input_len) ==
  offset = 0 \/ (offset < input_len /\ input_len - offset >= length)

HeaderAcceptable(f, input_len) ==
  /\ f.signature \in {WOFF1_SIG, WOFF2_SIG}
  /\ input_len >= HeaderSize(f.signature)
  /\ f.reserved = 0
  /\ f.num_tables > 0
  /\ f.length = input_len
  /\ RegionInside(f.meta_offset, f.meta_length, input_len)
  /\ RegionInside(f.priv_offset, f.priv_length, input_len)

---------------------------------------------------------------------------
(* Inputs and specification for CollectionDirectoryEntry::parse            *)

\* bound: the number of table indices in a font entry of a parse input
MaxFontTables == 3

SeqsUpTo(S, n) == UNION { [1..k -> S] : k \in 0..n }

RECURSIVE Concat(_)
\* the concatenation of a sequence of byte strings
Concat(ss) == IF Len(ss) = 0 THEN << >> ELSE Head(ss) \o Concat(Tail(ss))

DirEntry(tag, format, orig_length, woff_offset, woff_length) ==
  [tag |-> tag, format |-> format, orig_length |-> orig_length,
   woff_offset |-> woff_offset, woff_length |-> woff_length]

\* shared table directories, as Woff2TableDirectory::parse returns them
CollTableDirectories ==
  { << DirEntry(HEAD, 1, 12, 0, 12), DirEntry(GLYF, 0, 40, 12, 36),
       DirEntry(LOCA, 0, 4, 48, 0), DirEntry(POST, 1, 3, 48, 3) >>,
    << DirEntry(GLYF, 0, 40, 0, 36), DirEntry(POST, 1, 3, 36, 3),
       DirEntry(LOCA, 0, 4, 39, 0) >>,
    << DirEntry(POST, 1, 3, 0, 3) >> }

\* test input: a font entry that declares `declared` tables and lists `indices`
EncodeFontEntry(declared, flavor, indices) ==
  Write255UShort(declared) \o put_u32(flavor)
    \o Concat([i \in 1..Len(indices) |-> Write255UShort(indices[i])])

CollInput(tables, indices, dsel) ==
  LET declared == CASE dsel = 0 -> 0
                    [] dsel = 1 -> Len(indices)
                    [] OTHER -> Len(indices) + 1
  IN [fn |-> "CollectionDirectoryEntry::parse",
      tables |-> tables, indices |-> indices, declared |-> declared,
      input |-> EncodeFontEntry(declared, TagOf(<<0, 1, 0, 0>>), indices)]

\* index lists over the valid indices, the two just past the end, and one
\* that needs the two-byte 255UInt16 form; the declared count is zero, the
\* list's length, or one more (a truncated entry)
CollInputs ==
  UNION { { CollInput(tables, indices, dsel) :
              indices \in SeqsUpTo(0..(Len(tables) + 1) \cup {300}, MaxFontTables),
              dsel \in 0..2 } :
          tables \in CollTableDirectories }

InitColl ==
  /\ call \in CollInputs
  /\ ret = NoRet
  /\ IdlePipeline

CallCollectionDirectoryEntryParse ==
  /\ call.fn = "CollectionDirectoryEntry::parse"
  /\ ret = NoRet
  /\ ret' = CollectionDirectoryEntry_parse(call.input, call.tables)
  /\ UNCHANGED <<call, raw, brotli, pc, st, out, outcome>>

SpecColl == InitColl /\ [][CallCollectionDirectoryEntryParse]_vars

\* the listed indices that the parser is told to read
DeclaredIndices(c) == SubSeq(c.indices, 1, Min(c.declared, Len(c.indices)))

\* C10: CollectionDirectoryEntry::parse returns Err for every font entry that
\* contains a table index >= the number of entries of the shared table
\* directory (so no such index is used to index the directory).
C10_IndexOutOfRangeFails ==
  (/\ call.fn = "CollectionDirectoryEntry::parse"
   /\ ret # NoRet
   /\ \E i \in 1..Len(DeclaredIndices(call)) :
         DeclaredIndices(call)[i] >= Len(call.tables))
    => ret.res = "Err"

---------------------------------------------------------------------------
(* Bit operations on naturals                                              *)

RECURSIVE BitAnd(_, _)
\* a & b
BitAnd(a, b) ==
  IF a = 0 \/ b = 0 THEN 0
  ELSE (a % 2) * (b % 2) + 2 * BitAnd(a \div 2, b \div 2)

RECURSIVE BitOr(_, _)
\* a | b
BitOr(a, b) ==
  IF a = 0 THEN b
  ELSE IF b = 0 THEN a
  ELSE Max(a % 2, b % 2) + 2 * BitOr(a \div 2, b \div 2)

Shl(a, n) == a * 2^n        \* a << n
Shr(a, n) == a \div 2^n     \* a >> n

---------------------------------------------------------------------------
(* The transformed glyf table: woff/glyf_decoder.rs                        *)

\* simple glyph flags
GLYF_ON_CURVE == 1
GLYF_X_SHORT == 2
GLYF_Y_SHORT == 4
GLYF_REPEAT == 8
GLYF_THIS_X_IS_SAME == 16
GLYF_THIS_Y_IS_SAME == 32
OVERLAP_SIMPLE == 64

NUM_SUB_STREAMS == 7
FLAG_OVERLAP_SIMPLE_BITMAP == 1

\* composite glyph flags
FLAG_ARG_1_AND_2_ARE_WORDS == 1
FLAG_WE_HAVE_A_SCALE == 8
FLAG_MORE_COMPONENTS == 32
FLAG_WE_HAVE_AN_X_AND_Y_SCALE == 64
FLAG_WE_HAVE_A_TWO_BY_TWO == 128
FLAG_WE_HAVE_INSTRUCTIONS == 256

I32_MAX == 2147483647
I32_MIN == (-I32_MAX) - 1

\* decode_triplet::with_sign
with_sign(flag, baseval) == IF BitAnd(flag, 1) # 0 THEN baseval ELSE -baseval

\* the condition on which decode_triplet::safe_add bails
safe_add_overflows(a, b) ==
  \/ (a > 0 /\ b > I32_MAX - a)
  \/ (a < 0 /\ b < I32_MIN - a)

\* the number of data bytes of a triplet whose flag (low 7 bits) is flag
n_data_bytes(flag) ==
  IF flag < 84 THEN 1 ELSE IF flag < 120 THEN 2 ELSE IF flag < 124 THEN 3 ELSE 4

\* <<dx, dy>> of the triplet with the given flag at in_[triplet_index..]
triplet_deltas(flag, in_, triplet_index) ==
  LET b(i) == in_[triplet_index + i + 1]
  IN IF flag < 10 THEN
       << 0, with_sign(flag, Shl(BitAnd(flag, 14), 7) + b(0)) >>
     ELSE IF flag < 20 THEN
       << with_sign(flag, Shl(BitAnd(flag - 10, 14), 7) + b(0)), 0 >>
     ELSE IF flag < 84 THEN
       LET b0 == flag - 20
           b1 == b(0)
       IN << with_sign(flag, 1 + BitAnd(b0, 48) + Shr(b1, 4)),
             with_sign(Shr(flag, 1), 1 + Shl(BitAnd(b0, 12), 2) + BitAnd(b1, 15)) >>
     ELSE IF flag < 120 THEN
       LET b0 == flag - 84
       IN << with_sign(flag, 1 + Shl(b0 \div 12, 8) + b(0)),
             with_sign(Shr(flag, 1), 1 + Shl(Shr(b0 % 12, 2), 8) + b(1)) >>
     ELSE IF flag < 124 THEN
       LET b2 == b(1)
       IN << with_sign(flag, Shl(b(0), 4) + Shr(b2, 4)),
             with_sign(Shr(flag, 1), Shl(BitAnd(b2, 15), 8) + b(2)) >>
     ELSE
       << with_sign(flag, Shl(b(0), 8) + b(1)),
          with_sign(Shr(flag, 1), Shl(b(2), 8) + b(3)) >>

RECURSIVE decode_triplet_loop(_, _, _, _)

\* the end of one iteration of a loop that pushes the deltas of the triplet
\* instead of the position they lead to
decode_triplet_push_deltas(flags_in, in_, k, s, on_curve, n, d) ==
  IF safe_add_overflows(s.x, d[1]) \/ safe_add_overflows(s.y, d[2]) THEN Err
  ELSE decode_triplet_loop(flags_in, in_, k + 1,
         [x |-> s.x + d[1], y |-> s.y + d[2],
          triplet_index |-> s.triplet_index + n,
          points |-> Append(s.points,
                       [x |-> d[1], y |-> d[2], on_curve |-> on_curve])])

\* the end of one iteration of decode_triplet's loop: the deltas d = <<dx, dy>>
\* of the n-byte triplet are added to the position and the point is pushed
decode_triplet_push(flags_in, in_, k, s, on_curve, n, d) ==
  IF safe_add_overflows(s.x, d[1]) \/ safe_add_overflows(s.y, d[2]) THEN Err
  ELSE decode_triplet_loop(flags_in, in_, k + 1,
         [x |-> s.x + d[1], y |-> s.y + d[2],
          triplet_index |-> s.triplet_index + n,
          points |-> Append(s.points,
                       [x |-> s.x + d[1], y |-> s.y + d[2], on_curve |-> on_curve])])

\* the loop of decode_triplet over flags_in[k..]; s holds x, y, triplet_index
\* and the points pushed so far
decode_triplet_loop(flags_in, in_, k, s) ==
  IF k = Len(flags_in)
  THEN [res |-> "Ok", points |-> s.points, consumed |-> s.triplet_index]
  ELSE
    LET on_curve == Shr(flags_in[k + 1], 7) = 0
        flag == BitAnd(flags_in[k + 1], 127)
        n == n_data_bytes(flag)
    IN IF s.triplet_index + n > Len(in_) THEN Err
       ELSE decode_triplet_push(flags_in, in_, k, s, on_curve, n,
                                triplet_deltas(flag, in_, s.triplet_index))

\* decode_triplet: the points and the number of bytes of in_ consumed
decode_triplet(flags_in, in_) ==
  IF Len(flags_in) > Len(in_) THEN Err
  ELSE decode_triplet_loop(flags_in, in_, 0,
         [x |-> 0, y |-> 0, triplet_index |-> 0, points |-> << >>])

\* the flag byte write_glyph_points computes for point i (zero-based)
point_flag(point, i, has_overlap_bit, last_x, last_y) ==
  LET dx == point.x - last_x
      dy == point.y - last_y
      on == IF point.on_curve THEN GLYF_ON_CURVE ELSE 0
      ov == IF has_overlap_bit /\ i = 0 THEN OVERLAP_SIMPLE ELSE 0
      fx == IF dx = 0 THEN GLYF_THIS_X_IS_SAME
            ELSE IF dx > -256 /\ dx < 256
                 THEN BitOr(GLYF_X_SHORT, IF dx > 0 THEN GLYF_THIS_X_IS_SAME ELSE 0)
                 ELSE 0
      fy == IF dy = 0 THEN GLYF_THIS_Y_IS_SAME
            ELSE IF dy > -256 /\ dy < 256
                 THEN BitOr(GLYF_Y_SHORT, IF dy > 0 THEN GLYF_THIS_Y_IS_SAME ELSE 0)
                 ELSE 0
  IN BitOr(BitOr(on, ov), BitOr(fx, fy))

\* the bytes written for the pending flag: the flag, or the flag with the
\* repeat bit and its repeat count
write_flag(last_flag, repeat_count) ==
  IF repeat_count > 0
  THEN put_u8(BitOr(last_flag, GLYF_REPEAT)) \o put_u8(repeat_count)
  ELSE put_u8(last_flag)

RECURSIVE write_flags_loop(_, _, _, _)
\* the flag loop of write_glyph_points from point i on, and the final flag
write_flags_loop(points, i, has_overlap_bit, s) ==
  IF i = Len(points) THEN s.dst \o write_flag(s.last_flag, s.repeat_count)
  ELSE
    LET point == points[i + 1]
        flag == point_flag(point, i, has_overlap_bit, s.last_x, s.last_y)
    IN IF flag = s.last_flag /\ s.repeat_count < 255
       THEN write_flags_loop(points, i + 1, has_overlap_bit,
              [s EXCEPT !.repeat_count = @ + 1, !.last_x = point.x,
                        !.last_y = point.y, !.last_flag = flag])
       ELSE write_flags_loop(points, i + 1, has_overlap_bit,
              [dst |-> s.dst \o write_flag(s.last_flag, s.repeat_count),
               repeat_count |-> 0, last_x |-> point.x, last_y |-> point.y,
               last_flag |-> flag])

RECURSIVE write_coordinates(_, _, _)
\* the x (or y) loop of write_glyph_points over the coordinates vals[i..]
write_coordinates(vals, i, last) ==
  IF i = Len(vals) THEN << >>
  ELSE
    LET d == vals[i + 1] - last
        bytes == IF d = 0 THEN << >>
                 ELSE IF d > -256 /\ d < 256 THEN put_u8(IF d < 0 THEN -d ELSE d)
                 ELSE put_i16(d)
    IN bytes \o write_coordinates(vals, i + 1, last + d)

\* write_glyph_points: the bytes appended to dst (last_flag starts at u8::MAX)
write_glyph_points(points, has_overlap_bit) ==
  write_flags_loop(points, 0, has_overlap_bit,
    [dst |-> << >>, last_flag |-> 255, repeat_count |-> 0,
     last_x |-> 0, last_y |-> 0])
  \o write_coordinates([i \in 1..Len(points) |-> points[i].x], 0, 0)
  \o write_coordinates([i \in 1..Len(points) |-> points[i].y], 0, 0)

RECURSIVE fold_min(_, _, _)
fold_min(vals, i, m) ==
  IF i > Len(vals) THEN m ELSE fold_min(vals, i + 1, Min(vals[i], m))

RECURSIVE fold_max(_, _, _)
fold_max(vals, i, m) ==
  IF i > Len(vals) THEN m ELSE fold_max(vals, i + 1, Max(vals[i], m))

\* write_bbox: x_min, y_min, x_max, y_max of the points, each truncated to i16
write_bbox(points) ==
  LET xs == [i \in 1..Len(points) |-> points[i].x]
      ys == [i \in 1..Len(points) |-> points[i].y]
      x_min == IF Len(points) = 0 THEN 0 ELSE fold_min(xs, 2, xs[1])
      y_min == IF Len(points) = 0 THEN 0 ELSE fold_min(ys, 2, ys[1])
      x_max == IF Len(points) = 0 THEN 0 ELSE fold_max(xs, 2, xs[1])
      y_max == IF Len(points) = 0 THEN 0 ELSE fold_max(ys, 2, ys[1])
  IN put_i16(x_min) \o put_i16(y_min) \o put_i16(x_max) \o put_i16(y_max)

(* An operator that continues a function once an intermediate result is    *)
(* known takes that result as a parameter (its name says which step of the *)
(* function it is): f_step(.., r) is the rest of f after `let r = ..?;`.   *)

RECURSIVE compute_size_of_composite_loop(_, _, _)
\* one iteration of the while loop of compute_size_of_composite and the rest
compute_size_of_composite_loop(composite_stream, bytes_read, we_have_instructions) ==
  LET flags == try_get_u16(composite_stream)
  IN IF flags.res # "Ok" THEN Err
     ELSE
       LET instructions ==
             we_have_instructions \/ BitAnd(flags.v, FLAG_WE_HAVE_INSTRUCTIONS) # 0
           arg_size ==
             2 + (IF BitAnd(flags.v, FLAG_ARG_1_AND_2_ARE_WORDS) # 0 THEN 4 ELSE 2)
               + (IF BitAnd(flags.v, FLAG_WE_HAVE_A_SCALE) # 0 THEN 2
                  ELSE IF BitAnd(flags.v, FLAG_WE_HAVE_AN_X_AND_Y_SCALE) # 0 THEN 4
                  ELSE IF BitAnd(flags.v, FLAG_WE_HAVE_A_TWO_BY_TWO) # 0 THEN 8
                  ELSE 0)
       IN IF advance(flags.rest, arg_size).res # "Ok" THEN Panic
          ELSE IF BitAnd(flags.v, FLAG_MORE_COMPONENTS) # 0
               THEN compute_size_of_composite_loop(
                      DropN(flags.rest, arg_size), bytes_read + 2 + arg_size, instructions)
          ELSE [res |-> "Ok", size |-> bytes_read + 2 + arg_size,
                have_instructions |-> instructions]

\* compute_size_of_composite: (bytes of the composite glyph, has instructions)
compute_size_of_composite(composite_stream) ==
  compute_size_of_composite_loop(composite_stream, 0, FALSE)

RECURSIVE GlyfDecoder_substreams(_, _, _, _)
\* the loop of GlyfDecoder::new that slices the substreams out of data
GlyfDecoder_substreams(data, input, offset, substreams) ==
  IF Len(substreams) = NUM_SUB_STREAMS
  THEN [res |-> "Ok", substreams |-> substreams, offset |-> offset]
  ELSE
    LET substream_size == try_get_u32(input)
    IN IF substream_size.res # "Ok" THEN Err
       ELSE IF substream_size.v > Len(data) - offset THEN Err
       ELSE GlyfDecoder_substreams(
              data, substream_size.rest, offset + substream_size.v,
              Append(substreams, Slice(data, offset, offset + substream_size.v)))

\* GlyfDecoder::new once the substreams s are sliced.  The overlap bitmap is
\* sliced out of data before its length is checked, so a bitmap that runs past
\* the end of data panics.
GlyfDecoder_new_streams(data, flags, num_glyphs, index_format, s) ==
  LET has_overlap_bitmap == BitAnd(flags, FLAG_OVERLAP_SIMPLE_BITMAP) # 0
      bitmap_length == Shl(Shr(num_glyphs + 31, 5), 2)
      overlap_bitmap_length == Shr(num_glyphs + 7, 3)
  IN IF s.res # "Ok" THEN Err
     ELSE IF bitmap_length > Len(s.substreams[6]) THEN Err
     ELSE IF has_overlap_bitmap /\ s.offset + overlap_bitmap_length > Len(data)
          THEN Panic
     ELSE
       [res |-> "Ok",
        d |-> [n_contour_stream |-> s.substreams[1],
               n_points_stream |-> s.substreams[2],
               flag_stream |-> s.substreams[3],
               glyph_stream |-> s.substreams[4],
               composite_stream |-> s.substreams[5],
               bbox_bitmap |-> SubSeq(s.substreams[6], 1, bitmap_length),
               bbox_stream |-> DropN(s.substreams[6], bitmap_length),
               instruction_stream |-> s.substreams[7],
               overlap_bitmap |->
                 IF has_overlap_bitmap
                 THEN Some(Slice(data, s.offset, s.offset + overlap_bitmap_length))
                 ELSE None,
               glyph_buf |-> << >>,
               num_glyphs |-> num_glyphs,
               index_format |-> index_format]]

\* GlyfDecoder::new once the four leading u16s h (reserved, flags, num_glyphs,
\* index_format) are read
GlyfDecoder_new_header(data, h) ==
  IF h.res # "Ok" THEN Err
  ELSE IF (2 + NUM_SUB_STREAMS) * 4 > Len(data) THEN Err
  ELSE GlyfDecoder_new_streams(
         data, h.vs[2], h.vs[3], h.vs[4],
         GlyfDecoder_substreams(data, h.rest, (2 + NUM_SUB_STREAMS) * 4, << >>))

\* GlyfDecoder::new
GlyfDecoder_new(data) ==
  GlyfDecoder_new_header(data, try_get_all(data, <<2, 2, 2, 2>>))

\* parse_composite_glyph, the end: the instructions ins are read
parse_composite_glyph_instructions(d, ins) ==
  IF ins.res # "Ok" THEN Err
  ELSE [res |-> "Ok",
        d |-> [d EXCEPT !.instruction_stream = ins.rest, !.glyph_buf = ins.dst]]

\* parse_composite_glyph once the components comp are copied
parse_composite_glyph_components(d, c, instruction_size, comp) ==
  IF ~c.have_instructions
  THEN [res |-> "Ok",
        d |-> [d EXCEPT !.composite_stream = comp.rest, !.glyph_buf = comp.dst]]
  ELSE parse_composite_glyph_instructions(
         [d EXCEPT !.composite_stream = comp.rest],
         try_read_bytes_into(d.instruction_stream, instruction_size.v,
                             comp.dst \o put_u16(instruction_size.v)))

\* parse_composite_glyph once n_contours and the bbox are in glyph_buf
parse_composite_glyph_bbox(d, c, instruction_size, bbox) ==
  IF bbox.res # "Ok" THEN Err
  ELSE parse_composite_glyph_components(
         [d EXCEPT !.bbox_stream = bbox.rest], c, instruction_size,
         try_read_bytes_into(d.composite_stream, c.size, bbox.dst))

\* parse_composite_glyph once the instruction size is known
parse_composite_glyph_size(d, c, instruction_size) ==
  IF instruction_size.res # "Ok" THEN Err
  ELSE parse_composite_glyph_bbox(
         [d EXCEPT !.glyph_stream = instruction_size.rest], c, instruction_size,
         try_read_bytes_into(d.bbox_stream, 8, put_i16(-1)))

\* parse_composite_glyph once compute_size_of_composite returned c
parse_composite_glyph_sized(d, c) ==
  IF c.res # "Ok" THEN c
  ELSE parse_composite_glyph_size(
         d, c,
         IF c.have_instructions THEN try_get_variable_255_u16(d.glyph_stream)
         ELSE [res |-> "Ok", v |-> 0, rest |-> d.glyph_stream])

\* GlyfDecoder::parse_composite_glyph: the decoder with the glyph in glyph_buf
parse_composite_glyph(d) ==
  parse_composite_glyph_sized(d, compute_size_of_composite(d.composite_stream))

RECURSIVE read_n_points(_, _, _)
\* the first loop of parse_simple_glyph: n contours' point counts (the u32
\* total cannot overflow below 2^31)
read_n_points(n_points_stream, n, n_points_vec) ==
  IF n = 0 THEN [res |-> "Ok", n_points_vec |-> n_points_vec, rest |-> n_points_stream]
  ELSE
    LET n_points_contour == try_get_variable_255_u16(n_points_stream)
    IN IF n_points_contour.res # "Ok" THEN Err
       ELSE read_n_points(n_points_contour.rest, n - 1,
                          Append(n_points_vec, n_points_contour.v))

RECURSIVE SeqSum(_)
SeqSum(s) == IF Len(s) = 0 THEN 0 ELSE Head(s) + SeqSum(Tail(s))

RECURSIVE write_end_points(_, _, _, _)
\* the endPtsOfContours loop of parse_simple_glyph from contour i on: Err once
\* an end point reaches 65536, else the bytes written
write_end_points(n_points_vec, i, end_point, bytes) ==
  IF i = Len(n_points_vec) THEN [res |-> "Ok", bytes |-> bytes]
  ELSE IF end_point + n_points_vec[i + 1] >= 65536 THEN Err
  ELSE write_end_points(n_points_vec, i + 1, end_point + n_points_vec[i + 1],
                        bytes \o put_u16((end_point + n_points_vec[i + 1]) % U16))

\* parse_simple_glyph, the end: the instructions ins are read, the points are
\* written after them
parse_simple_glyph_instructions(d, t, has_overlap_bit, ins) ==
  IF ins.res # "Ok" THEN Err
  ELSE [res |-> "Ok",
        d |-> [d EXCEPT !.instruction_stream = ins.rest,
                        !.glyph_buf = ins.dst
                                        \o write_glyph_points(t.points, has_overlap_bit)]]

\* parse_simple_glyph once the end points are written
parse_simple_glyph_end_points(d, t, has_overlap_bit, instruction_size, bbox, ends) ==
  IF ends.res # "Ok" THEN Err
  ELSE parse_simple_glyph_instructions(
         d, t, has_overlap_bit,
         try_read_bytes_into(d.instruction_stream, instruction_size.v,
                             bbox.dst \o ends.bytes \o put_u16(instruction_size.v)))

\* parse_simple_glyph once n_contours and the bbox are in glyph_buf
parse_simple_glyph_bbox(d, np, t, has_overlap_bit, instruction_size, bbox) ==
  IF bbox.res # "Ok" THEN Err
  ELSE parse_simple_glyph_end_points(
         [d EXCEPT !.bbox_stream = bbox.rest], t, has_overlap_bit, instruction_size,
         bbox, write_end_points(np.n_points_vec, 0, -1, << >>))

\* parse_simple_glyph once the instruction size is read
parse_simple_glyph_size(d, n_contours, glyph_has_bbox, has_overlap_bit, np, t, instruction_size) ==
  IF instruction_size.res # "Ok" THEN Err
  ELSE IF SeqSum(np.n_points_vec) >= 2^27 THEN Err
  ELSE parse_simple_glyph_bbox(
         [d EXCEPT !.glyph_stream = instruction_size.rest], np, t, has_overlap_bit,
         instruction_size,
         IF glyph_has_bbox
         THEN try_read_bytes_into(d.bbox_stream, 8, put_i16(n_contours))
         ELSE [res |-> "Ok", rest |-> d.bbox_stream,
               dst |-> put_i16(n_contours) \o write_bbox(t.points)])

\* parse_simple_glyph once the points t are decoded
parse_simple_glyph_points(d, n_contours, glyph_has_bbox, has_overlap_bit, np, flag_size, t) ==
  IF t.res # "Ok" THEN Err
  ELSE parse_simple_glyph_size(
         [d EXCEPT !.flag_stream = DropN(d.flag_stream, flag_size)],
         n_contours, glyph_has_bbox, has_overlap_bit, np, t,
         try_get_variable_255_u16(DropN(d.glyph_stream, t.consumed)))

\* parse_simple_glyph once the contours' point counts np are read
parse_simple_glyph_n_points(d, n_contours, glyph_has_bbox, has_overlap_bit, np) ==
  IF np.res # "Ok" THEN Err
  ELSE IF SeqSum(np.n_points_vec) > Len(d.flag_stream) THEN Err
  ELSE parse_simple_glyph_points(
         [d EXCEPT !.n_points_stream = np.rest],
         n_contours, glyph_has_bbox, has_overlap_bit, np, SeqSum(np.n_points_vec),
         decode_triplet(SubSeq(d.flag_stream, 1, SeqSum(np.n_points_vec)),
                        d.glyph_stream))

\* GlyfDecoder::parse_simple_glyph: the decoder with the glyph in glyph_buf
parse_simple_glyph(d, n_contours, glyph_has_bbox, has_overlap_bit) ==
  parse_simple_glyph_n_points(d, n_contours, glyph_has_bbox, has_overlap_bit,
                              read_n_points(d.n_points_stream, n_contours, << >>))

\* the entries of a loca table all written as 4-byte offsets, whatever the
\* index format
loca_content_long(loca_values, index_format) ==
  Concat([i \in 1..Len(loca_values) |-> put_u32(loca_values[i])])

\* the entries of a loca table: 4-byte offsets when index_format is not 0,
\* else 2-byte halved offsets
loca_content(loca_values, index_format) ==
  IF index_format # 0
  THEN Concat([i \in 1..Len(loca_values) |-> put_u32(loca_values[i])])
  ELSE Concat([i \in 1..Len(loca_values) |-> put_u16(Shr(loca_values[i], 1) % U16)])

\* generate_loca_table once the content is written
generate_loca_table_checksum(loca_table) ==
  [res |-> "Ok", loca_table |-> loca_table, checksum |-> compute_checksum(loca_table)]

\* generate_loca_table: the loca bytes and their checksum
generate_loca_table(loca_values, index_format) ==
  generate_loca_table_checksum(loca_content(loca_values, index_format))

\* bit i of a bitmap read from the least significant bit of each byte
bitmap_bit_lsb_first(bitmap, i) == BitAnd(bitmap[Shr(i, 3) + 1], Shl(1, i % 8)) # 0

\* bitmap[i >> 3] & (0x80 >> (i & 7)) != 0
bitmap_bit(bitmap, i) == BitAnd(bitmap[Shr(i, 3) + 1], Shr(128, i % 8)) # 0

RECURSIVE transform_loop(_, _, _)

\* the loop body of GlyfDecoder::transform once glyph i is in g.d.glyph_buf,
\* and the rest of the loop
transform_glyph(i, acc, n_contours, g) ==
  IF g.res # "Ok" THEN g
  ELSE transform_loop(g.d, i + 1,
         [glyf_checksum |->
            wrapping_add(acc.glyf_checksum, compute_checksum(g.d.glyph_buf)),
          glyf_table |-> PadTo4(acc.glyf_table \o g.d.glyph_buf),
          loca_values |-> Append(acc.loca_values, as_u32(Len(acc.glyf_table))),
          x_mins |->
            IF n_contours > 0
            THEN Append(acc.x_mins, as_i16(be_value(Slice(g.d.glyph_buf, 2, 4))))
            ELSE acc.x_mins])

\* the loop body of GlyfDecoder::transform once n_contours is read
transform_n_contours(d, i, acc, n_contours) ==
  IF n_contours.res # "Ok" THEN Err
  ELSE transform_glyph(
         i, acc, n_contours.v,
         IF n_contours.v = -1
         THEN (IF ~bitmap_bit(d.bbox_bitmap, i) THEN Err
               ELSE parse_composite_glyph(
                      [d EXCEPT !.n_contour_stream = n_contours.rest,
                                !.glyph_buf = << >>]))
         ELSE IF n_contours.v > 0
         THEN parse_simple_glyph(
                [d EXCEPT !.n_contour_stream = n_contours.rest, !.glyph_buf = << >>],
                n_contours.v, bitmap_bit(d.bbox_bitmap, i),
                is_some(d.overlap_bitmap) /\ bitmap_bit(unwrap(d.overlap_bitmap), i))
         ELSE (IF bitmap_bit(d.bbox_bitmap, i) THEN Err
               ELSE [res |-> "Ok",
                     d |-> [d EXCEPT !.n_contour_stream = n_contours.rest,
                                     !.glyph_buf = << >>]]))

\* the per-glyph loop of GlyfDecoder::transform from glyph i on; acc holds
\* glyf_checksum, glyf_table, loca_values and x_mins
transform_loop(d, i, acc) ==
  IF i = d.num_glyphs THEN [res |-> "Ok", acc |-> acc]
  ELSE transform_n_contours(d, i, acc, try_get_i16(d.n_contour_stream))

\* GlyfDecoder::transform once the loca table is generated
transform_loca(d, acc, loca_values, loca) ==
  IF loca.res # "Ok" THEN Err
  ELSE [res |-> "Ok",
        num_glyphs |-> d.num_glyphs,
        index_format |-> d.index_format,
        x_mins |-> acc.x_mins,
        glyf_table |-> acc.glyf_table,
        glyf_checksum |-> acc.glyf_checksum,
        loca_values |-> loca_values,
        loca_table |-> loca.loca_table,
        loca_checksum |-> loca.checksum]

\* GlyfDecoder::transform once the per-glyph loop returned r
transform_glyphs(d, r) ==
  IF r.res # "Ok" THEN r
  ELSE transform_loca(
         d, r.acc, Append(r.acc.loca_values, as_u32(Len(r.acc.glyf_table))),
         generate_loca_table(Append(r.acc.loca_values, as_u32(Len(r.acc.glyf_table))),
                             d.index_format))

\* GlyfDecoder::transform: GlyfAndLocaData (loca_values is the local vector
\* the loca table is generated from)
transform(d) ==
  transform_glyphs(d, transform_loop(d, 0,
                        [glyf_checksum |-> W32Zero, glyf_table |-> << >>,
                         loca_values |-> << >>, x_mins |-> << >>]))

\* tranform_glyf_table once GlyfDecoder::new returned
tranform_glyf_table_decoder(d) == IF d.res # "Ok" THEN d ELSE transform(d.d)

\* tranform_glyf_table: GlyfDecoder::new(data)?.transform()
tranform_glyf_table(data) == tranform_glyf_table_decoder(GlyfDecoder_new(data))

---------------------------------------------------------------------------
(* The transformed hmtx table: woff/hmtx_decoder.rs                        *)

\* n big-endian u16 reads
read_u16s(input, n) == try_get_all(input, [i \in 1..n |-> 2])

\* decode_hmtx_table, the end: the lsbs of the glyphs past num_hmetrics are read
decode_hmtx_table_monospace(num_glyphs, num_hmetrics, advance_widths, proportional, monospace) ==
  IF monospace.res # "Ok" THEN Err
  ELSE [res |-> "Ok",
        hmtx_data |->
          [num_glyphs |-> num_glyphs,
           num_hmetrics |-> num_hmetrics,
           advance_widths |-> advance_widths.vs,
           lsbs |-> [i \in 1..num_glyphs |->
                       as_i16((proportional.vs \o monospace.vs)[i])]]]

\* decode_hmtx_table once the lsbs of the first num_hmetrics glyphs are read
decode_hmtx_table_proportional(num_glyphs, num_hmetrics, x_mins, has_monospace_lsbs, advance_widths, proportional) ==
  IF proportional.res # "Ok" THEN Err
  ELSE decode_hmtx_table_monospace(
         num_glyphs, num_hmetrics, advance_widths, proportional,
         IF has_monospace_lsbs
         THEN read_u16s(proportional.rest, num_glyphs - num_hmetrics)
         ELSE [res |-> "Ok", rest |-> proportional.rest,
               vs |-> [i \in 1..(num_glyphs - num_hmetrics) |->
                         x_mins[num_hmetrics + i] % U16]])

\* decode_hmtx_table once the advance widths are read
decode_hmtx_table_widths(num_glyphs, num_hmetrics, x_mins, has_proportional_lsbs, has_monospace_lsbs, advance_widths) ==
  IF advance_widths.res # "Ok" THEN Err
  ELSE decode_hmtx_table_proportional(
         num_glyphs, num_hmetrics, x_mins, has_monospace_lsbs, advance_widths,
         IF has_proportional_lsbs
         THEN read_u16s(advance_widths.rest, num_hmetrics)
         ELSE [res |-> "Ok", rest |-> advance_widths.rest,
               vs |-> [i \in 1..num_hmetrics |-> x_mins[i] % U16]])

\* decode_hmtx_table once the flags byte is read, without the check of the
\* reserved bits
decode_hmtx_table_flags_unreserved(num_glyphs, num_hmetrics, x_mins, hmtx_flags) ==
  IF hmtx_flags.res # "Ok" THEN Err
  ELSE IF BitAnd(hmtx_flags.v, 1) = 0 /\ BitAnd(hmtx_flags.v, 2) = 0 THEN Err
  ELSE IF Len(x_mins) # num_glyphs THEN Panic
  ELSE IF num_hmetrics > num_glyphs THEN Err
  ELSE IF num_hmetrics < 1 THEN Err
  ELSE decode_hmtx_table_widths(
         num_glyphs, num_hmetrics, x_mins,
         BitAnd(hmtx_flags.v, 1) = 0, BitAnd(hmtx_flags.v, 2) = 0,
         read_u16s(hmtx_flags.rest, num_hmetrics))

\* decode_hmtx_table once the flags byte is read
decode_hmtx_table_flags(num_glyphs, num_hmetrics, x_mins, hmtx_flags) ==
  IF hmtx_flags.res # "Ok" THEN Err
  ELSE IF BitAnd(hmtx_flags.v, 252) # 0 THEN Err
  ELSE IF BitAnd(hmtx_flags.v, 1) = 0 /\ BitAnd(hmtx_flags.v, 2) = 0 THEN Err
  ELSE IF Len(x_mins) # num_glyphs THEN Panic            \* assert!
  ELSE IF num_hmetrics > num_glyphs THEN Err
  ELSE IF num_hmetrics < 1 THEN Err
  ELSE decode_hmtx_table_widths(
         num_glyphs, num_hmetrics, x_mins,
         BitAnd(hmtx_flags.v, 1) = 0, BitAnd(hmtx_flags.v, 2) = 0,
         read_u16s(hmtx_flags.rest, num_hmetrics))

\* decode_hmtx_table: HmtxData
decode_hmtx_table(input, num_glyphs, num_hmetrics, x_mins) ==
  decode_hmtx_table_flags(num_glyphs, num_hmetrics, x_mins, try_get_u8(input))

\* an hmtx table with every advance width first and every lsb after them
generate_hmtx_table_split(hmtx_data) ==
  Concat([i \in 1..hmtx_data.num_hmetrics |-> put_u16(hmtx_data.advance_widths[i])])
    \o Concat([i \in 1..hmtx_data.num_glyphs |-> put_i16(hmtx_data.lsbs[i])])

\* generate_hmtx_table: (advance width, lsb) pairs, then the remaining lsbs
generate_hmtx_table(hmtx_data) ==
  Concat([i \in 1..hmtx_data.num_glyphs |->
            (IF i <= hmtx_data.num_hmetrics
             THEN put_u16(hmtx_data.advance_widths[i]) ELSE << >>)
            \o put_i16(hmtx_data.lsbs[i])])

---------------------------------------------------------------------------
(* Inputs and specification for tranform_glyf_table                        *)

\* bound: the number of glyphs of a transformed glyf input
MaxGlyphs == 2

\* test input: what one glyph contributes to each substream.  nc is its
\* nContour entry, np its nPoints entries, fl its flags, gl its triplets and
\* instruction length, co its composite data, bb its bit of the bbox bitmap,
\* bs its explicit bbox, ins its instructions
GlyphParts(kind) ==
  CASE kind = "empty" ->
         [nc |-> put_i16(0), np |-> << >>, fl |-> << >>, gl |-> << >>,
          co |-> << >>, bb |-> 0, bs |-> << >>, ins |-> << >>]
    [] kind = "negative" ->        \* numberOfContours -2
         [nc |-> put_i16(-2), np |-> << >>, fl |-> << >>, gl |-> << >>,
          co |-> << >>, bb |-> 0, bs |-> << >>, ins |-> << >>]
    [] kind = "empty_bbox" ->      \* an empty glyph with a bbox: rejected
         [nc |-> put_i16(0), np |-> << >>, fl |-> << >>, gl |-> << >>,
          co |-> << >>, bb |-> 1, bs |-> <<0, 0, 0, 0, 0, 1, 0, 1>>, ins |-> << >>]
    [] kind = "composite_nobbox" -> \* a composite glyph without a bbox: rejected
         [nc |-> put_i16(-1), np |-> << >>, fl |-> << >>, gl |-> << >>,
          co |-> put_u16(0) \o <<0, 5, 1, 2>>,
          bb |-> 0, bs |-> << >>, ins |-> << >>]
    [] kind = "composite" ->       \* one component, byte arguments
         [nc |-> put_i16(-1), np |-> << >>, fl |-> << >>, gl |-> << >>,
          co |-> put_u16(0) \o <<0, 5, 1, 2>>,
          bb |-> 1, bs |-> <<0, 1, 0, 2, 0, 3, 0, 4>>, ins |-> << >>]
    [] kind = "composite2" ->      \* two components, the first with instructions
         [nc |-> put_i16(-1), np |-> << >>, fl |-> << >>,
          gl |-> Write255UShort(2),
          co |-> put_u16(FLAG_MORE_COMPONENTS + FLAG_WE_HAVE_INSTRUCTIONS)
                   \o <<0, 5, 1, 2>>
                   \o put_u16(FLAG_ARG_1_AND_2_ARE_WORDS) \o <<0, 6, 0, 1, 0, 2>>,
          bb |-> 1, bs |-> <<255, 255, 0, 2, 0, 3, 0, 4>>, ins |-> <<7, 9>>]
    [] kind = "simple_wide" ->     \* one point at (65535, 65535), computed bbox
         [nc |-> put_i16(1), np |-> Write255UShort(1), fl |-> <<127>>,
          gl |-> <<255, 255, 255, 255>> \o Write255UShort(0),
          co |-> << >>, bb |-> 0, bs |-> << >>, ins |-> << >>]
    [] kind = "simple_low" ->      \* one point at (-32769, -1), computed bbox
         [nc |-> put_i16(1), np |-> Write255UShort(1), fl |-> <<124>>,
          gl |-> <<128, 1, 0, 1>> \o Write255UShort(0),
          co |-> << >>, bb |-> 0, bs |-> << >>, ins |-> << >>]
    [] kind = "simple" ->          \* one contour of three points, computed bbox
         [nc |-> put_i16(1), np |-> Write255UShort(3),
          fl |-> <<1, 23, 252>>,
          gl |-> <<5, 33, 1, 44, 0, 0>> \o Write255UShort(0),
          co |-> << >>, bb |-> 0, bs |-> << >>, ins |-> << >>]
    [] OTHER ->                    \* "simple2": two contours, explicit bbox
         [nc |-> put_i16(2), np |-> Write255UShort(1) \o Write255UShort(1),
          fl |-> <<11, 11>>,
          gl |-> <<4, 4>> \o Write255UShort(1),
          co |-> << >>, bb |-> 1, bs |-> <<0, 4, 0, 0, 0, 8, 0, 0>>, ins |-> <<9>>]

GlyphKinds ==
  {"empty", "negative", "empty_bbox", "composite", "composite2", "simple", "simple2"}

\* the bytes of a bitmap whose bit i (most significant bit first) is bits[i+1]
Bitmap(bits, nbytes) ==
  [j \in 1..nbytes |->
     SeqSum([k \in 1..8 |->
               IF 8 * (j - 1) + k <= Len(bits)
               THEN bits[8 * (j - 1) + k] * Shr(128, k - 1) ELSE 0])]

\* s without its last k bytes
Cut(s, k) == SubSeq(s, 1, Max(0, Len(s) - k))

\* test input: the seven substreams of the glyphs whose parts are P
GlyfStreams(P, damage) ==
  << Cut(Concat([i \in 1..Len(P) |-> P[i].nc]), IF damage = "ncontour" THEN 2 ELSE 0),
     Concat([i \in 1..Len(P) |-> P[i].np]),
     Concat([i \in 1..Len(P) |-> P[i].fl]),
     Concat([i \in 1..Len(P) |-> P[i].gl]),
     Cut(Concat([i \in 1..Len(P) |-> P[i].co]), IF damage = "composite" THEN 2 ELSE 0),
     Cut(Bitmap([i \in 1..Len(P) |-> P[i].bb], Shl(Shr(Len(P) + 31, 5), 2))
           \o Concat([i \in 1..Len(P) |-> P[i].bs]),
         IF damage = "bbox" THEN 1 ELSE 0),
     Concat([i \in 1..Len(P) |-> P[i].ins]) >>

\* test input: header, substream sizes, substreams and overlap bitmap
GlyfData(n, index_format, overlap, streams) ==
  put_u16(0) \o put_u16(IF overlap = 0 THEN 0 ELSE FLAG_OVERLAP_SIMPLE_BITMAP)
    \o put_u16(n) \o put_u16(index_format)
    \o Concat([i \in 1..7 |-> put_u32(Len(streams[i]))])
    \o Concat(streams)
    \o (IF overlap = 1 THEN Bitmap([i \in 1..n |-> 1], Shr(n + 7, 3)) ELSE << >>)

\* test input: data, or its first 20 bytes when the header is damaged
GlyfDamaged(damage, data) == IF damage = "header" THEN SubSeq(data, 1, 20) ELSE data

\* test input: the transformed glyf table of the glyphs `kinds`.
\*   overlap 0: no overlap bitmap; 1: flagged and present; 2: flagged, absent
\*   damage "composite": the composite stream loses its last two bytes;
\*          "ncontour": the nContour stream loses its last entry;
\*          "bbox": the bbox stream loses its last byte;
\*          "header": only the first 20 bytes are kept
EncodeGlyf(kinds, index_format, overlap, damage) ==
  GlyfDamaged(damage,
    GlyfData(Len(kinds), index_format, overlap,
             GlyfStreams([i \in 1..Len(kinds) |-> GlyphParts(kinds[i])], damage)))

GlyfDamages == {"none", "composite", "ncontour", "bbox", "header"}

GlyfInput(kinds, index_format, overlap, damage) ==
  [fn |-> "tranform_glyf_table", kinds |-> kinds, index_format |-> index_format,
   overlap |-> overlap, damage |-> damage,
   input |-> EncodeGlyf(kinds, index_format, overlap, damage)]

GlyfInputs ==
  { GlyfInput(kinds, index_format, overlap, damage) :
      kinds \in SeqsUpTo(GlyphKinds, MaxGlyphs), index_format \in {0, 1},
      overlap \in 0..2, damage \in GlyfDamages }

InitGlyf ==
  /\ call \in GlyfInputs
  /\ ret = NoRet
  /\ IdlePipeline

CallTranformGlyfTable ==
  /\ call.fn = "tranform_glyf_table"
  /\ ret = NoRet
  /\ ret' = tranform_glyf_table(call.input)
  /\ UNCHANGED <<call, raw, brotli, pc, st, out, outcome>>

SpecGlyf == InitGlyf /\ [][CallTranformGlyfTable]_vars

\* glyphs that reconstruct to no bytes at all
EmptyKinds == {"empty", "negative"}

\* entry i (zero-based) of an emitted loca table
LocaEntry(loca_table, index_format, i) ==
  IF index_format = 0
  THEN 2 * be_value(Slice(loca_table, 2 * i, 2 * i + 2))
  ELSE be_value(Slice(loca_table, 4 * i, 4 * i + 4))

\* C5: when tranform_glyf_table succeeds, the loca offset vector has
\* num_glyphs + 1 entries, entry i is where glyph i starts in the glyf table
\* (its numberOfContours is there), the entries never decrease and are
\* multiples of 4, the last one is the length of the glyf table, an empty
\* glyph's entry equals the next one, and the emitted loca table has
\* (index_format = 0 ? 2 : 4) * (num_glyphs + 1) bytes, which hold the entries.
C5_LocaVector ==
  (call.fn = "tranform_glyf_table" /\ ret.res = "Ok") =>
    LET n == Len(call.kinds)
        loca == ret.loca_values
    IN /\ ret.num_glyphs = n
       /\ Len(loca) = n + 1
       /\ \A i \in 1..(n + 1) : loca[i] % 4 = 0
       /\ \A i \in 1..n : loca[i] <= loca[i + 1]
       /\ loca[n + 1] = Len(ret.glyf_table)
       /\ \A i \in 1..n :
            IF call.kinds[i] \in EmptyKinds THEN loca[i] = loca[i + 1]
            ELSE /\ loca[i] + 10 <= loca[i + 1]
                 /\ Slice(ret.glyf_table, loca[i], loca[i] + 2)
                      = GlyphParts(call.kinds[i]).nc
       /\ Len(ret.loca_table) = (IF call.index_format = 0 THEN 2 ELSE 4) * (n + 1)
       /\ \A i \in 0..n :
            LocaEntry(ret.loca_table, call.index_format, i) = loca[i + 1]

\* a short-format table for an empty glyph between two glyphs with outlines
C5_Witness ==
  /\ call.fn = "tranform_glyf_table"
  /\ ret.res = "Ok"
  /\ call.index_format = 0
  /\ Len(call.kinds) = 2
  /\ call.kinds[1] = "simple"
  /\ call.kinds[2] = "empty"
  /\ ret.loca_values[2] = ret.loca_values[3]
  /\ ret.loca_values[2] > 0

---------------------------------------------------------------------------
(* The output header: decompress.rs generate_header and HeaderData         *)

\* 0xB1B0AFBA_u32
B1B0AFBA == << 45488, 44986 >>

\* K_MAX_PLAUSIBLE_COMPRESSION_RATIO: f32 = 100.0
K_MAX_PLAUSIBLE_COMPRESSION_RATIO == 100

\* the size of the entries of a table directory, without the 12 bytes of the
\* offset table
table_directory_size_entries(font) == 16 * Len(font.table_indices)

\* CollectionDirectoryEntry::table_directory_size
table_directory_size(font) == 12 + 16 * Len(font.table_indices)

RECURSIVE max_pow2_loop(_, _)
\* while 1u32 << (max_pow2 + 1) <= num_tables { max_pow2 += 1 }
max_pow2_loop(num_tables, max_pow2) ==
  IF Shl(1, max_pow2 + 1) <= num_tables
  THEN max_pow2_loop(num_tables, max_pow2 + 1)
  ELSE max_pow2

\* write_table_directory_header once max_pow2 is known
write_table_directory_header_fields(flavor, num_tables, max_pow2) ==
  put_u32(flavor) \o put_u16(num_tables)
    \o put_u16(Shl(Shl(1, max_pow2), 4) % U16)                       \* searchRange
    \o put_u16(max_pow2)                                             \* entrySelector
    \o put_u16((Shl(num_tables, 4) - Shl(Shl(1, max_pow2), 4)) % U16) \* rangeShift

\* write_table_directory_header (decompress.rs): the 12 bytes of an offset table
write_table_directory_header(flavor, num_tables) ==
  write_table_directory_header_fields(flavor, num_tables, max_pow2_loop(num_tables, 0))

\* write_empty_offset_table_entry: the tag and three zero words
write_empty_offset_table_entry(tag) == put_u32(tag) \o Zeros(12)

RECURSIVE table_directory_offsets(_, _, _)
\* the tableDirectoryOffsets loop of generate_header from font i on
table_directory_offsets(fonts, i, table_directory_offset) ==
  IF i > Len(fonts) THEN << >>
  ELSE put_u32(table_directory_offset)
         \o table_directory_offsets(fonts, i + 1,
              table_directory_offset + table_directory_size(fonts[i]))

\* the TTC header generate_header writes for a collection
generate_ttc_header(header, collection_directory) ==
  put_u32(header.flavor) \o put_u32(collection_directory.version)
    \o put_u32(Len(collection_directory.fonts))
    \o table_directory_offsets(
         collection_directory.fonts, 1,
         IF collection_directory.version = TTC_VERSION_1
         THEN 12 + 4 * Len(collection_directory.fonts)
         ELSE 12 + 12 + 4 * Len(collection_directory.fonts))
    \o (IF collection_directory.version = TTC_VERSION_2 THEN Zeros(12) ELSE << >>)

\* the offset table and the empty entries generate_header writes for one font
generate_table_directory(font, tables) ==
  write_table_directory_header(font.flavor, Len(font.table_indices))
    \o Concat([k \in 1..Len(font.table_indices) |->
                 write_empty_offset_table_entry(tables[font.table_indices[k] + 1].tag)])

\* info.table_entry_by_tag of one font, as the (tag, offset) pairs in the order
\* they are inserted; a later pair replaces an earlier one with the same tag
generate_table_entry_by_tag(font, tables, start_offset) ==
  [k \in 1..Len(font.table_indices) |->
     [tag |-> tables[font.table_indices[k] + 1].tag,
      offset |-> start_offset + 12 + 16 * (k - 1)]]

\* one iteration of the table directory loop of generate_header: directory is
\* what the iteration appends to the output
generate_header_font(h, font, tables, directory) ==
  [data |-> h.data \o directory,
   checksum |-> wrapping_add(h.checksum, compute_checksum(directory)),
   font_infos |->
     Append(h.font_infos,
            [header_checksum |-> compute_checksum(directory),
             table_entry_by_tag |-> generate_table_entry_by_tag(font, tables, Len(h.data))])]

RECURSIVE generate_header_fonts(_, _, _, _)
\* the table directory loop of generate_header from font i on
generate_header_fonts(h, fonts, i, tables) ==
  IF i > Len(fonts) THEN h
  ELSE generate_header_fonts(
         generate_header_font(h, fonts[i], tables,
                              generate_table_directory(fonts[i], tables)),
         fonts, i + 1, tables)

\* generate_header once the TTC header (empty for a single font) is written
generate_header_ttc(ttc_header, tables, collection_directory) ==
  generate_header_fonts(
    [data |-> ttc_header, checksum |-> compute_checksum(ttc_header), font_infos |-> << >>],
    collection_directory.fonts, 1, tables)

\* generate_header: HeaderData (data, checksum, font_infos)
generate_header(header, tables, collection_directory) ==
  generate_header_ttc(
    IF is_collection(header) THEN generate_ttc_header(header, collection_directory)
    ELSE << >>,
    tables, collection_directory)

\* table_entry_by_tag[&tag]: the offset inserted last for the tag
table_entry_by_tag_get(table_entry_by_tag, tag) ==
  table_entry_by_tag[
    CHOOSE k \in 1..Len(table_entry_by_tag) :
      /\ table_entry_by_tag[k].tag = tag
      /\ \A j \in (k + 1)..Len(table_entry_by_tag) : table_entry_by_tag[j].tag # tag
  ].offset

\* TableMetadata::header_checksum_contribution
header_checksum_contribution(metadata) ==
  wrapping_add(wrapping_add(metadata.checksum, W32(metadata.dst_offset)),
               W32(metadata.dst_length))

\* HeaderData::update_table_entry once the entry's offset is looked up: the
\* three words are written into the HeaderData's own data
update_table_entry_at(out_header, font_idx, metadata, table_entry_offset) ==
  [out_header EXCEPT
     !.data = SubSeq(@, 1, table_entry_offset + 4)
                \o put_w32(metadata.checksum)
                \o put_u32(metadata.dst_offset)
                \o put_u32(metadata.dst_length)
                \o DropN(@, table_entry_offset + 16),
     !.font_infos[font_idx + 1].header_checksum =
        wrapping_add(wrapping_add(wrapping_add(@, metadata.checksum),
                                  W32(metadata.dst_offset)),
                     W32(metadata.dst_length))]

\* HeaderData::update_table_entry
update_table_entry(out_header, font_idx, tag, metadata) ==
  update_table_entry_at(
    out_header, font_idx, metadata,
    table_entry_by_tag_get(out_header.font_infos[font_idx + 1].table_entry_by_tag, tag))

\* read_num_hmetrics: advance(34) aborts on fewer than 34 bytes
read_num_hmetrics(hhea_data) ==
  IF advance(hhea_data, 34).res # "Ok" THEN Panic
  ELSE try_get_u16(DropN(hhea_data, 34))

---------------------------------------------------------------------------
(* reconstruct_font.  s is the record of the locals of the decode:         *)
(* header, table_directory, collection_directory, input (the unparsed      *)
(* rest of raw_woff_data), decompressed_data, out_header, table_metadata,  *)
(* font_idx, table_pos (how many tables of the font the loop has done),    *)
(* font_checksum, num_hmetrics, num_glyphs, x_mins.  output is `out`.      *)

\* TableMetadata
TableMetadata(checksum, dst_offset, dst_length) ==
  [checksum |-> checksum, dst_offset |-> dst_offset, dst_length |-> dst_length]

\* the font reconstruct_font is called for
font_entry(s) == s.collection_directory.fonts[s.font_idx + 1]

\* the glyf/loca compatibility check at the head of reconstruct_font: TRUE
\* when it bails
glyf_loca_incompatible(font, tables) ==
  IF is_some(font.glyf_idx) /\ is_some(font.loca_idx)
  THEN is_transformed(tables[unwrap(font.glyf_idx) + 1])
         # is_transformed(tables[unwrap(font.loca_idx) + 1])
  ELSE is_some(font.glyf_idx) \/ is_some(font.loca_idx)

\* read_num_hmetrics(hhea_table.data_as_slice(woff_data)?)? as an Option
read_hhea_num_hmetrics(hhea_data) ==
  IF hhea_data.res # "Ok" THEN Err
  ELSE IF read_num_hmetrics(hhea_data.v).res # "Ok" THEN read_num_hmetrics(hhea_data.v)
  ELSE [res |-> "Ok", v |-> Some(read_num_hmetrics(hhea_data.v).v)]

\* reconstruct_font up to the table loop, once num_hmetrics is read
reconstruct_font_num_hmetrics(s, num_hmetrics) ==
  IF num_hmetrics.res # "Ok" THEN num_hmetrics
  ELSE [res |-> "Ok",
        s |-> [s EXCEPT
                 !.font_checksum =
                    IF is_collection(s.header) THEN s.out_header.checksum
                    ELSE s.out_header.font_infos[s.font_idx + 1].header_checksum,
                 !.num_hmetrics = num_hmetrics.v,
                 !.num_glyphs = None,
                 !.x_mins = None,
                 !.table_pos = 0]]

\* reconstruct_font up to the table loop
reconstruct_font_begin(s) ==
  IF glyf_loca_incompatible(font_entry(s), s.table_directory) THEN Err
  ELSE reconstruct_font_num_hmetrics(
         s,
         IF is_some(font_entry(s).hhea_idx)
         THEN read_hhea_num_hmetrics(
                data_as_slice(s.table_directory[unwrap(font_entry(s).hhea_idx) + 1],
                              s.decompressed_data))
         ELSE [res |-> "Ok", v |-> None])

\* the end of the table loop body: the font checksum and the directory entry
\* of the HeaderData are updated with the metadata
reconstruct_font_table_entry(s, output, table, metadata) ==
  [res |-> "Ok",
   output |-> output,
   s |-> [s EXCEPT
            !.font_checksum =
               wrapping_add(wrapping_add(@, metadata.checksum),
                            header_checksum_contribution(metadata)),
            !.out_header = update_table_entry(@, s.font_idx, table.tag, metadata),
            !.table_pos = @ + 1]]

\* the branch of a table that is not transformed, once check_sum_adjustment
\* is read (head) or zero: copy, pad, record
reconstruct_font_untransformed(s, output, table_idx, table, check_sum_adjustment, table_data) ==
  IF table_data.res # "Ok" THEN Err
  ELSE reconstruct_font_table_entry(
         [s EXCEPT !.table_metadata[table_idx + 1] =
            Some(TableMetadata(
                   wrapping_sub(compute_checksum(table_data.v), check_sum_adjustment),
                   as_u32(Len(output)), table.woff_length))],
         PadTo4(output \o table_data.v),
         table,
         TableMetadata(wrapping_sub(compute_checksum(table_data.v), check_sum_adjustment),
                       as_u32(Len(output)), table.woff_length))

\* the glyf branch once the loca table is written too
reconstruct_font_loca(s, output, table_idx, table, g, glyf_metadata, loca_metadata) ==
  reconstruct_font_table_entry(
    [s EXCEPT !.num_glyphs = Some(g.num_glyphs),
              !.x_mins = Some(g.x_mins),
              !.table_metadata =
                 [[@ EXCEPT ![table_idx + 1] = Some(glyf_metadata)]
                    EXCEPT ![unwrap(font_entry(s).loca_idx) + 1] = Some(loca_metadata)]],
    PadTo4(output \o g.loca_table),
    table, glyf_metadata)

\* the glyf branch once the glyf table is written; output holds it already
reconstruct_font_glyf_written(s, output, table_idx, table, g, glyf_dest_offset) ==
  reconstruct_font_loca(
    s, output, table_idx, table, g,
    TableMetadata(g.glyf_checksum, as_u32(glyf_dest_offset), as_u32(Len(g.glyf_table))),
    TableMetadata(g.loca_checksum, as_u32(Len(output)), as_u32(Len(g.loca_table))))

\* the glyf branch once tranform_glyf_table returned g
reconstruct_font_glyf(s, output, table_idx, table, g) ==
  IF g.res # "Ok" THEN [res |-> g.res]
  ELSE reconstruct_font_glyf_written(s, PadTo4(output \o g.glyf_table),
                                     table_idx, table, g, Len(output))

\* tranform_glyf_table(table.data_as_slice(woff_data)?)?
tranform_glyf_table_slice(raw_glyf_table_data) ==
  IF raw_glyf_table_data.res # "Ok" THEN Err
  ELSE tranform_glyf_table(raw_glyf_table_data.v)

\* the hmtx branch once the table is generated
reconstruct_font_hmtx_table(s, output, table_idx, table, hmtx_table) ==
  reconstruct_font_table_entry(
    [s EXCEPT !.table_metadata[table_idx + 1] =
       Some(TableMetadata(compute_checksum(hmtx_table), as_u32(Len(output)),
                          as_u32(Len(hmtx_table))))],
    PadTo4(output \o hmtx_table),
    table,
    TableMetadata(compute_checksum(hmtx_table), as_u32(Len(output)),
                  as_u32(Len(hmtx_table))))

\* the hmtx branch once decode_hmtx_table returned
reconstruct_font_hmtx_data(s, output, table_idx, table, hmtx_data) ==
  IF hmtx_data.res # "Ok" THEN [res |-> hmtx_data.res]
  ELSE reconstruct_font_hmtx_table(s, output, table_idx, table,
                                   generate_hmtx_table(hmtx_data.hmtx_data))

\* the hmtx branch once the table's bytes are sliced
reconstruct_font_hmtx_slice(s, output, table_idx, table, raw_hmtx_table_data) ==
  IF raw_hmtx_table_data.res # "Ok" THEN Err
  ELSE reconstruct_font_hmtx_data(
         s, output, table_idx, table,
         decode_hmtx_table(raw_hmtx_table_data.v, unwrap(s.num_glyphs),
                           unwrap(s.num_hmetrics), unwrap(s.x_mins)))

\* the hmtx branch: the three unwraps abort when no transformed glyf table or
\* no hhea table came before
reconstruct_font_hmtx(s, output, table_idx, table) ==
  IF ~is_some(s.num_glyphs) \/ ~is_some(s.num_hmetrics) \/ ~is_some(s.x_mins)
  THEN Panic
  ELSE reconstruct_font_hmtx_slice(s, output, table_idx, table,
                                   data_as_slice(table, s.decompressed_data))

\* check_sum_adjustment of an untransformed table: the word at offset 8 of
\* head, 0 for any other table
check_sum_adjustment(table, woff_data) ==
  IF table.tag = HEAD
  THEN w32_from_be_bytes(Slice(woff_data, table.woff_offset + 8, table.woff_offset + 12))
  ELSE W32Zero

\* the body of the table loop of reconstruct_font for table table_idx
reconstruct_font_table(s, output, table_idx, table) ==
  IF table.woff_offset + table.woff_length > Len(s.decompressed_data) THEN Err
  ELSE IF is_some(s.table_metadata[table_idx + 1])
  THEN (IF s.font_idx = 0 /\ table.tag # LOCA THEN Err
        ELSE reconstruct_font_table_entry(s, output, table,
                                          unwrap(s.table_metadata[table_idx + 1])))
  ELSE IF ~is_transformed(table)
  THEN (IF table.tag = HEAD /\ table.woff_length < 12 THEN Err
        ELSE reconstruct_font_untransformed(
               s, output, table_idx, table,
               check_sum_adjustment(table, s.decompressed_data),
               data_as_slice(table, s.decompressed_data)))
  ELSE IF table.tag = GLYF
  THEN reconstruct_font_glyf(
         s, output, table_idx, table,
         tranform_glyf_table_slice(data_as_slice(table, s.decompressed_data)))
  ELSE IF table.tag = LOCA THEN Panic                      \* unreachable!
  ELSE IF table.tag = HMTX THEN reconstruct_font_hmtx(s, output, table_idx, table)
  ELSE Err                                                 \* bail!()

\* one iteration of the table loop of reconstruct_font
reconstruct_font_next_table(s, output) ==
  reconstruct_font_table(
    s, output, font_entry(s).table_indices[s.table_pos + 1],
    s.table_directory[font_entry(s).table_indices[s.table_pos + 1] + 1])

\* the write of checkSumAdjustment: head's metadata must exist and `out` must
\* hold four bytes from dst_offset + 8 on
reconstruct_font_head(s, output, checksum_adjustment, head_table_metadata) ==
  IF ~is_some(head_table_metadata) THEN Panic                \* expect
  ELSE IF unwrap(head_table_metadata).dst_offset + 12 > Len(output) THEN Panic
  ELSE [res |-> "Ok", s |-> s,
        output |-> SubSeq(output, 1, unwrap(head_table_metadata).dst_offset + 8)
                     \o put_w32(checksum_adjustment)
                     \o DropN(output, unwrap(head_table_metadata).dst_offset + 12)]

\* reconstruct_font after the table loop
reconstruct_font_end(s, output) ==
  IF is_some(font_entry(s).head_idx)
  THEN reconstruct_font_head(s, output, wrapping_sub(B1B0AFBA, s.font_checksum),
                             s.table_metadata[unwrap(font_entry(s).head_idx) + 1])
  ELSE [res |-> "Ok", s |-> s, output |-> output]

---------------------------------------------------------------------------
(* decompress_woff2_with_brotli, step by step.  pc names the step that     *)
(* runs next; a step that fails sets outcome and leaves pc where it is.    *)

\* the locals before the decode starts
InitLocals ==
  [header |-> NoRet, table_directory |-> << >>, collection_directory |-> NoRet,
   input |-> << >>, decompressed_data |-> << >>, out_header |-> NoRet,
   table_metadata |-> << >>, font_idx |-> 0, table_pos |-> 0,
   font_checksum |-> W32Zero, num_hmetrics |-> None, num_glyphs |-> None,
   x_mins |-> None]

\* the decode ends with the failure value (`?`, bail!) or aborts (panic)
Fail(r) ==
  /\ outcome' = [res |-> r.res]
  /\ UNCHANGED <<pc, st, out>>

\* WoffHeader::parse(&mut input)? and the WOFF2 version check
ParseHeader ==
  /\ pc = "header" /\ outcome = NoRet
  /\ \E h \in {WoffHeader_parse(raw)} :
       IF h.res # "Ok" THEN Fail(h)
       ELSE IF h.header.woff_version # Woff2 THEN Fail(Err)
       ELSE /\ st' = [st EXCEPT !.header = h.header, !.input = h.rest]
            /\ pc' = "table_directory"
            /\ UNCHANGED <<out, outcome>>
  /\ UNCHANGED <<call, ret, raw, brotli>>

\* Woff2TableDirectory::parse(&mut input, num_tables)?
ParseTableDirectory ==
  /\ pc = "table_directory" /\ outcome = NoRet
  /\ \E d \in {Woff2TableDirectory_parse(st.input, st.header.num_tables,
                                         call.overflow_checks)} :
       IF d.res # "Ok" THEN Fail(d)
       ELSE /\ st' = [st EXCEPT !.table_directory = d.tables, !.input = d.rest]
            /\ pc' = "collection_directory"
            /\ UNCHANGED <<out, outcome>>
  /\ UNCHANGED <<call, ret, raw, brotli>>

\* CollectionDirectory::parse or generate_for_single_font, then
\* sort_tables_within_each_font
ParseCollectionDirectory ==
  /\ pc = "collection_directory" /\ outcome = NoRet
  /\ \E c \in {IF is_collection(st.header)
               THEN CollectionDirectory_parse(st.input, st.table_directory)
               ELSE [res |-> "Ok", rest |-> st.input,
                     dir |-> generate_for_single_font(st.header.flavor,
                                                      st.table_directory)]} :
       IF c.res # "Ok" THEN Fail(c)
       ELSE /\ st' = [st EXCEPT
                        !.collection_directory =
                           sort_tables_within_each_font(c.dir, st.table_directory),
                        !.input = c.rest]
            /\ pc' = "decompress"
            /\ UNCHANGED <<out, outcome>>
  /\ UNCHANGED <<call, ret, raw, brotli>>

\* &input[0..total_compressed_size], the call of the injected decompressor
\* and the unwrap of its result
Decompress ==
  /\ pc = "decompress" /\ outcome = NoRet
  /\ IF st.header.total_compressed_size > Len(st.input) THEN Fail(Panic)
     ELSE IF brotli.res # "Ok" THEN Fail(Panic)
     ELSE /\ st' = [st EXCEPT !.decompressed_data = brotli.v]
          /\ pc' = "validate"
          /\ UNCHANGED <<out, outcome>>
  /\ UNCHANGED <<call, ret, raw, brotli>>

\* compression_ratio > K_MAX_PLAUSIBLE_COMPRESSION_RATIO: the f32 quotient
\* total_sfnt_size / raw_woff_data.len() exceeds 100.0 exactly when
\* total_sfnt_size > 100 * len, for the input lengths of the model
implausible_compression_ratio(total_sfnt_size, input_len) ==
  total_sfnt_size > K_MAX_PLAUSIBLE_COMPRESSION_RATIO * input_len

\* the two bail_if! checks that follow the decompression
ValidateHeader ==
  /\ pc = "validate" /\ outcome = NoRet
  /\ IF st.header.total_sfnt_size < 1 THEN Fail(Err)
     ELSE IF implausible_compression_ratio(st.header.total_sfnt_size, Len(raw))
     THEN Fail(Err)
     ELSE /\ pc' = "generate_header"
          /\ UNCHANGED <<st, out, outcome>>
  /\ UNCHANGED <<call, ret, raw, brotli>>

\* generate_header, out.extend_from_slice(&out_header.data) and the empty
\* table_metadata
GenerateHeader ==
  /\ pc = "generate_header" /\ outcome = NoRet
  /\ \E h \in {generate_header(st.header, st.table_directory, st.collection_directory)} :
       /\ st' = [st EXCEPT !.out_header = h,
                           !.table_metadata = [i \in 1..st.header.num_tables |-> None],
                           !.font_idx = 0]
       /\ out' = out \o h.data
  /\ pc' = "font"
  /\ UNCHANGED <<call, ret, raw, brotli, outcome>>

\* reconstruct_font up to its table loop
BeginFont ==
  /\ pc = "font" /\ outcome = NoRet
  /\ \E r \in {reconstruct_font_begin(st)} :
       IF r.res # "Ok" THEN Fail(r)
       ELSE /\ st' = r.s
            /\ pc' = "table"
            /\ UNCHANGED <<out, outcome>>
  /\ UNCHANGED <<call, ret, raw, brotli>>

\* one iteration of the table loop of reconstruct_font
ReconstructTable ==
  /\ pc = "table" /\ outcome = NoRet
  /\ st.table_pos < Len(font_entry(st).table_indices)
  /\ \E r \in {reconstruct_font_next_table(st, out)} :
       IF r.res # "Ok" THEN Fail(r)
       ELSE /\ st' = r.s
            /\ out' = r.output
            /\ UNCHANGED <<pc, outcome>>
  /\ UNCHANGED <<call, ret, raw, brotli>>

\* reconstruct_font after its table loop, then the next font or Ok(out)
EndFont ==
  /\ pc = "table" /\ outcome = NoRet
  /\ st.table_pos = Len(font_entry(st).table_indices)
  /\ \E r \in {reconstruct_font_end(st, out)} :
       IF r.res # "Ok" THEN Fail(r)
       ELSE /\ out' = r.output
            /\ IF st.font_idx + 1 < Len(st.collection_directory.fonts)
               THEN /\ st' = [st EXCEPT !.font_idx = @ + 1]
                    /\ pc' = "font"
                    /\ UNCHANGED outcome
               ELSE /\ pc' = "done"
                    /\ outcome' = [res |-> "Ok"]
                    /\ UNCHANGED st
  /\ UNCHANGED <<call, ret, raw, brotli>>

NextDecode ==
  \/ ParseHeader
  \/ ParseTableDirectory
  \/ ParseCollectionDirectory
  \/ Decompress
  \/ ValidateHeader
  \/ GenerateHeader
  \/ BeginFont
  \/ ReconstructTable
  \/ EndFont

---------------------------------------------------------------------------
(* Inputs and specification for decompress_woff2_with_brotli               *)

\* bound: the length of the longest post table of a decode input
MaxPostLen == 5

\* bound: the number of fonts of a collection input
MaxFonts == 2

\* test input: a table of a WOFF2 file: its tag, transform version and the
\* bytes it has in the decompressed stream
Table(tag, format, data) == [tag |-> tag, format |-> format, data |-> data]

PostTable(format, n) == Table(POST, format, [i \in 1..n |-> 16 + i])

\* a head table of n bytes whose checkSumAdjustment field is not zero
HeadTable(format, n) ==
  Table(HEAD, format, SubSeq(<<0, 1, 0, 0, 0, 2, 0, 3, 17, 34, 51, 68, 95, 15>>, 1, n))

\* a hhea table of n bytes whose numberOfHMetrics (bytes 34..35) is 1
HheaTable(n) == Table(HHEA, 1, SubSeq(Zeros(35) \o <<1>>, 1, n))

\* a transformed glyf table: g gives its glyphs, index format, overlap bitmap
\* and damage
GlyfTable(g) == Table(GLYF, 0, EncodeGlyf(g.kinds, g.index_format, g.overlap, g.damage))

\* a loca table: its length in a WOFF2 directory is always 0
LocaTable(format) == Table(LOCA, format, << >>)

\* a transformed hmtx table of n glyphs with one advance width; flags 3 takes
\* every lsb from the glyphs' x_min, flags 1 only the first one
HmtxTable(flags, n) ==
  Table(HMTX, 0, <<flags>> \o put_u16(500)
                   \o (IF flags = 1 THEN Concat([i \in 1..(n - 1) |-> put_i16(0 - i)]) ELSE << >>))

\* a table with a tag that is not one of the known tags
CustomTable == Table(TagOf(<<122, 122, 122, 122>>), 1, <<9, 8, 7>>)

Glyphs(kinds, index_format, overlap, damage) ==
  [kinds |-> kinds, index_format |-> index_format, overlap |-> overlap,
   damage |-> damage]

\* glyf tables that decode
GoodGlyphs ==
  { Glyphs(<<"simple">>, 0, 0, "none"),
    Glyphs(<<"simple", "empty">>, 0, 0, "none"),
    Glyphs(<<"simple2", "simple">>, 1, 1, "none"),
    Glyphs(<<"composite", "simple2">>, 1, 0, "none") }

\* glyf tables that are cut short: the composite stream ends inside the
\* arguments of a component, the overlap bitmap is flagged but missing, the
\* nContour stream lacks an entry
TruncatedGlyphs ==
  { Glyphs(<<"composite">>, 0, 0, "composite"),
    Glyphs(<<"simple", "composite2">>, 1, 0, "composite"),
    Glyphs(<<"simple">>, 0, 2, "none"),
    Glyphs(<<"simple", "empty">>, 0, 0, "ncontour") }

\* the table lists of the single-font inputs
SingleFontTables ==
  { <<PostTable(format, n)>> : format \in {0, 1}, n \in {0, 4, MaxPostLen} }
  \cup { <<HeadTable(1, 14), PostTable(1, MaxPostLen)>>,
         <<PostTable(1, MaxPostLen), HeadTable(1, 12)>>,
         <<HeadTable(1, 10)>>,
         <<HeadTable(0, 14)>>,
         <<CustomTable, PostTable(3, 1)>>,
         <<HmtxTable(3, 1)>>,
         <<GlyfTable(Glyphs(<<"simple">>, 0, 0, "none"))>>,
         <<GlyfTable(Glyphs(<<"simple">>, 0, 0, "none")), LocaTable(3)>>,
         <<Table(GLYF, 3, <<0, 0, 0, 1, 0, 2>>), LocaTable(3)>> }
  \cup { <<HheaTable(n), PostTable(2, 2)>> : n \in {33, 35, 36} }
  \cup { <<GlyfTable(g), LocaTable(0)>> : g \in GoodGlyphs \cup TruncatedGlyphs }
  \cup { <<HeadTable(1, 14), HheaTable(36), GlyfTable(g), LocaTable(0),
           HmtxTable(flags, Len(g.kinds))>> : g \in GoodGlyphs, flags \in {1, 3} }

\* the collection inputs: three shared tables, font k of 1..MaxFonts lists
\* head and the post table after it (the last font again the first post table)
CollectionTables == <<HeadTable(1, 14), PostTable(1, MaxPostLen), PostTable(2, 3)>>
CollectionFonts(n) == [k \in 1..n |-> IF k < 3 THEN <<0, k>> ELSE <<1, 0>>]

\* index (zero-based) of a tag in KNOWN_TABLE_TAGS, 63 when it is not there
KnownTagIndex(tag) ==
  IF \E k \in 1..Len(KNOWN_TABLE_TAGS) : KNOWN_TABLE_TAGS[k] = tag
  THEN (CHOOSE k \in 1..Len(KNOWN_TABLE_TAGS) : KNOWN_TABLE_TAGS[k] = tag) - 1
  ELSE 63

\* the UIntBase128 encoding of n < 2^14
EncodeBase128(n) == IF n < 128 THEN <<n>> ELSE <<128 + n \div 128, n % 128>>

\* test input: the directory entry of a table
EncodeTableEntry(t) ==
  <<KnownTagIndex(t.tag) + 64 * t.format>>
    \o (IF KnownTagIndex(t.tag) = 63 THEN put_u32(t.tag) ELSE << >>)
    \o EncodeBase128(Len(t.data)) \o EncodeBase128(Len(t.data))

\* test input: a collection directory
EncodeCollection(version, fonts) ==
  put_u32(version) \o Write255UShort(Len(fonts))
    \o Concat([k \in 1..Len(fonts) |->
                 EncodeFontEntry(Len(fonts[k]), TagOf(<<0, 1, 0, 0>>), fonts[k])])

\* the compressed stream of every input: the injected decompressor does not
\* look at it
CompressedData == <<27, 0, 3>>

\* test input: the bytes that follow the WOFF2 header
EncodeBody(tables, collection) ==
  Concat([i \in 1..Len(tables) |-> EncodeTableEntry(tables[i])])
    \o collection \o CompressedData

\* test input: header and body; sfnt selects totalSfntSize (0: zero, 1:
\* plausible, 2: just over 100 times the input length), extra is added to
\* totalCompressedSize
EncodeWoff2(flavor, num_tables, sfnt, extra, body) ==
  EncodeWoffHeader(
    [ signature |-> WOFF2_SIG, flavor |-> flavor, length |-> 48 + Len(body),
      num_tables |-> num_tables, reserved |-> 0,
      total_sfnt_size |-> CASE sfnt = 0 -> 0
                            [] sfnt = 1 -> 4 * (48 + Len(body))
                            [] OTHER -> K_MAX_PLAUSIBLE_COMPRESSION_RATIO * (48 + Len(body)) + 1,
      total_compressed_size |-> Len(CompressedData) + extra,
      major_version |-> 1, minor_version |-> 0,
      meta_offset |-> 0, meta_length |-> 0, meta_orig_length |-> 0,
      priv_offset |-> 0, priv_length |-> 0 ]) \o body

\* what the injected decompressor returns: 0 an error, 1 the tables' bytes, 2
\* the tables' bytes without the last one
DecompressorResult(sel, data) ==
  CASE sel = 0 -> Err
    [] sel = 1 -> [res |-> "Ok", v |-> data]
    [] OTHER -> [res |-> "Ok", v |-> Cut(data, 1)]

DecodeInput(flavor, tables, fonts, collection, sfnt, extra, sel, overflow_checks) ==
  [fn |-> "decompress_woff2_with_brotli",
   tables |-> tables, fonts |-> fonts, overflow_checks |-> overflow_checks,
   input |-> EncodeWoff2(flavor, Len(tables), sfnt, extra, EncodeBody(tables, collection)),
   decompressor |->
     DecompressorResult(sel, Concat([i \in 1..Len(tables) |-> tables[i].data]))]

DecodeInputs ==
  { DecodeInput(TagOf(<<0, 1, 0, 0>>), tables, << >>, << >>, sfnt, extra, sel, oc) :
      tables \in SingleFontTables, sfnt \in 0..2, extra \in {0, 2}, sel \in 0..2,
      oc \in BOOLEAN }
  \cup
  { DecodeInput(TTC_COLLECTION_FLAVOR, CollectionTables, CollectionFonts(n),
                EncodeCollection(version, CollectionFonts(n)), sfnt, extra, sel, oc) :
      n \in 1..MaxFonts, version \in {TTC_VERSION_1, TTC_VERSION_2, 0},
      sfnt \in 0..2, extra \in {0, 2}, sel \in 0..2, oc \in BOOLEAN }

Init ==
  /\ call \in DecodeInputs
  /\ ret = NoRet
  /\ raw = call.input
  /\ brotli = call.decompressor
  /\ pc = "header"
  /\ st = InitLocals
  /\ out = << >>
  /\ outcome = NoRet

Next == NextDecode

Spec == Init /\ [][Next]_vars

---------------------------------------------------------------------------
(* Properties of the decode                                                *)

\* the decode has written the output header
HeaderWritten == pc \in {"font", "table", "done"}

\* the tables that have a finalized record
Finalized == { i \in 1..Len(st.table_metadata) : is_some(st.table_metadata[i]) }

\* the finalized record of table i
Record(i) == unwrap(st.table_metadata[i])

\* byte i (from 1) of a byte string, 0 past its end
ByteOrZero(bytes, i) == IF i <= Len(bytes) THEN bytes[i] ELSE 0

\* the sum of the 16-bit half h (0 high, 1 low) of every big-endian 32-bit
\* word of a byte string whose last word is zero-padded
HalfSum(bytes, h) ==
  SeqSum([w \in 1..((Len(bytes) + 3) \div 4) |->
            256 * ByteOrZero(bytes, 4 * (w - 1) + 2 * h + 1)
              + ByteOrZero(bytes, 4 * (w - 1) + 2 * h + 2)])

\* the big-endian 32-bit word sum modulo 2^32, as halves
WordSum(bytes) ==
  << (HalfSum(bytes, 0) + HalfSum(bytes, 1) \div U16) % U16, HalfSum(bytes, 1) % U16 >>

\* where the table directory of font f (from 1) starts in the output
DirectoryStart(f) ==
  (IF is_collection(st.header)
   THEN 12 + 4 * Len(st.collection_directory.fonts)
          + (IF st.collection_directory.version = TTC_VERSION_2 THEN 12 ELSE 0)
   ELSE 0)
  + SeqSum([j \in 1..(f - 1) |->
              12 + 16 * Len(st.collection_directory.fonts[j].table_indices)])

\* the 16 bytes of the directory entry of the k-th table of font f in `bytes`
DirectoryEntry(bytes, f, k) ==
  Slice(bytes, DirectoryStart(f) + 12 + 16 * (k - 1), DirectoryStart(f) + 12 + 16 * k)

\* the directory entry a finalized record calls for
ExpectedEntry(tag, record) ==
  put_u32(tag) \o put_w32(record.checksum) \o put_u32(record.dst_offset)
    \o put_u32(record.dst_length)

\* C1: after a successful decode, every directory entry of the returned
\* output holds, after the table's tag, the checksum, output offset and output
\* length of the table's finalized record; none is left at zero.
C1_DirectoryEntriesPatched ==
  outcome.res = "Ok" =>
    \A f \in 1..Len(st.collection_directory.fonts) :
      \A k \in 1..Len(st.collection_directory.fonts[f].table_indices) :
        DirectoryEntry(out, f, k) =
          ExpectedEntry(
            st.table_directory[st.collection_directory.fonts[f].table_indices[k] + 1].tag,
            Record(st.collection_directory.fonts[f].table_indices[k] + 1))

\* C2: the words of the returned output of a successfully decoded single font
\* with a head table sum to 0xB1B0AFBA modulo 2^32.
C2_FontChecksum ==
  ( /\ outcome.res = "Ok"
    /\ ~is_collection(st.header)
    /\ is_some(st.collection_directory.fonts[1].head_idx) )
  => WordSum(out) = B1B0AFBA

\* the output bytes of finalized table i, with the checkSumAdjustment field
\* of a head table taken as zero
TableBytes(i) ==
  [n \in 1..Record(i).dst_length |->
     IF st.table_directory[i].tag = HEAD /\ n \in 9..12 THEN 0
     ELSE out[Record(i).dst_offset + n]]

\* C3: the checksum recorded for every finalized table (copied, glyf, loca,
\* hmtx) is the zero-padded big-endian word sum of the table's output bytes
\* [dst_offset, dst_offset + dst_length), head's bytes 8..12 taken as zero.
C3_TableChecksums ==
  HeaderWritten =>
    \A i \in Finalized :
      /\ Record(i).dst_offset + Record(i).dst_length <= Len(out)
      /\ Record(i).checksum = WordSum(TableBytes(i))

\* a decode that returned a head table whose length is not a multiple of 4, a
\* glyf table rebuilt from two glyphs, its loca table and a rebuilt hmtx table
C3_Witness ==
  /\ outcome.res = "Ok"
  /\ \E i \in Finalized :
       /\ st.table_directory[i].tag = HEAD
       /\ Record(i).dst_length % 4 # 0
  /\ \E i \in Finalized :
       /\ st.table_directory[i].tag = GLYF
       /\ st.table_directory[i].format = 0
       /\ unwrap(st.num_glyphs) = 2
       /\ Record(i).dst_length > 12
       /\ Record(i).checksum # W32Zero
  /\ \E i \in Finalized : st.table_directory[i].tag = LOCA /\ Record(i).dst_length > 0
  /\ \E i \in Finalized : st.table_directory[i].tag = HMTX /\ Record(i).dst_length > 0

\* the least element of a set of naturals
SetMin(S) == CHOOSE x \in S : \A y \in S : x <= y

\* where the table body that follows finalized table i starts: the least
\* offset of another table at or after the end of i, else the end of the output
NextBody(i) ==
  SetMin({ Record(j).dst_offset :
             j \in { j \in Finalized \ {i} :
                       Record(j).dst_offset >= Record(i).dst_offset + Record(i).dst_length } }
         \cup { Len(out) })

AtTable == pc = "table" /\ st.table_pos < Len(font_entry(st).table_indices)

\* the directory index (from 1) of the table the table loop is at
CurrentIndex == font_entry(st).table_indices[st.table_pos + 1] + 1

\* the directory entry of the table the table loop is at
CurrentTable == st.table_directory[CurrentIndex]

\* the bytes directory entry i has in the decompressed payload, with the
\* checkSumAdjustment field of a head table taken as zero
PayloadBytes(i) ==
  [n \in 1..st.table_directory[i].woff_length |->
     IF st.table_directory[i].tag = HEAD /\ n \in 9..12 THEN 0
     ELSE st.decompressed_data[st.table_directory[i].woff_offset + n]]

\* a directory entry that is neither glyf nor loca and has transform version 0
NullTransform(table) == table.tag \notin {GLYF, LOCA} /\ table.format = 0

\* the decode is past the parse of the header and the directories
DirectoriesParsed == pc \notin {"header", "table_directory", "collection_directory"}

\* a valid single-font input whose only table is a post table with transform
\* version 0, decoded by a release build with a decompressor that succeeds
PostOnly ==
  /\ DirectoriesParsed
  /\ \E n \in {0, 4, MaxPostLen} : call.tables = <<PostTable(0, n)>>
  /\ ~call.overflow_checks
  /\ brotli = [res |-> "Ok", v |-> call.tables[1].data]
  /\ st.header.total_compressed_size = Len(st.input)
  /\ st.header.total_sfnt_size >= 1
  /\ ~implausible_compression_ratio(st.header.total_sfnt_size, Len(raw))

\* C6: a directory entry that is neither glyf nor loca and has transform
\* version 0 is untransformed: the decode does not fail at it when its bytes
\* are in the payload, and it is finalized with its payload bytes copied
\* verbatim and padded to 4; a valid input with only a version-0 post table
\* decodes to offset table, one directory entry and the padded post bytes.
C6_Version0Untransformed ==
  /\ ( /\ AtTable
       /\ NullTransform(CurrentTable)
       /\ ~is_some(st.table_metadata[CurrentIndex])
       /\ CurrentTable.woff_offset + CurrentTable.woff_length <= Len(st.decompressed_data)
       /\ (CurrentTable.tag = HEAD => CurrentTable.woff_length >= 12) )
     => outcome = NoRet
  /\ HeaderWritten =>
       \A i \in Finalized :
         NullTransform(st.table_directory[i]) =>
           /\ Record(i).dst_length = st.table_directory[i].woff_length
           /\ TableBytes(i) = PayloadBytes(i)
  /\ (PostOnly /\ outcome # NoRet)
     => /\ outcome.res = "Ok"
        /\ Len(out) = 12 + 16 + 4 * ((Len(call.tables[1].data) + 3) \div 4)
        /\ \A n \in 29..Len(out) : out[n] = ByteOrZero(call.tables[1].data, n - 28)

\* C7: the decode returns Err whenever the injected decompressor returns an
\* error, and whenever totalSfntSize is < 1 or totalSfntSize / input_len
\* exceeds 100.0 whatever the decompressor returns; it never aborts and never
\* goes on to write output in these cases.
C7_FailureValue ==
  ( /\ DirectoriesParsed
    /\ st.header.total_compressed_size <= Len(st.input)
    /\ \/ brotli.res = "Err"
       \/ st.header.total_sfnt_size < 1
       \/ st.header.total_sfnt_size > 100 * Len(raw) )
  => /\ pc \in {"decompress", "validate"}
     /\ outcome # NoRet => outcome.res = "Err"

\* the table the table loop is at is a transformed glyf table cut short in
\* the way `cut`: "composite" the composite stream ends inside the arguments
\* of a component, "overlap" the overlap bitmap lies past the end of the data
CutGlyf(cut) ==
  /\ AtTable
  /\ CurrentTable.tag = GLYF /\ CurrentTable.format = 0
  /\ \E g \in TruncatedGlyphs :
       /\ call.tables[CurrentIndex] = GlyfTable(g)
       /\ IF cut = "composite" THEN g.damage = "composite" ELSE g.overlap = 2

\* the font about to be reconstructed has a hhea table of fewer than 36 bytes
ShortHhea ==
  /\ pc = "font"
  /\ is_some(font_entry(st).hhea_idx)
  /\ st.table_directory[unwrap(font_entry(st).hhea_idx) + 1].woff_length < 36

\* C8: truncated data ends the decode with Err and never with an abort: when
\* the input after the directories is shorter than totalCompressedSize, when
\* hhea is shorter than 36 bytes, when the composite stream ends inside a
\* component's arguments, and when the overlap bitmap extends past the end of
\* the transformed glyf data.
C8_TruncatedData ==
  /\ (pc = "decompress" /\ st.header.total_compressed_size > Len(st.input))
       => outcome.res \in {"none", "Err"}
  /\ ShortHhea => outcome.res \in {"none", "Err"}
  /\ CutGlyf("composite") => outcome.res \in {"none", "Err"}
  /\ CutGlyf("overlap") => outcome.res \in {"none", "Err"}
  /\ outcome.res = "Ok" =>
       /\ st.header.total_compressed_size <= Len(st.input)
       /\ \A i \in 1..Len(st.table_directory) :
            st.table_directory[i].tag = HHEA => st.table_directory[i].woff_length >= 36
       /\ \A i \in 1..Len(call.tables) :
            \A g \in TruncatedGlyphs : call.tables[i] # GlyfTable(g)

---------------------------------------------------------------------------
(* CollectionDirectoryEntry::parse: the glyf/loca pairing                  *)

\* the font entry is whole and every index it lists is in the directory
WholeEntryInRange ==
  /\ call.fn = "CollectionDirectoryEntry::parse"
  /\ call.declared = Len(call.indices)
  /\ \A i \in 1..Len(call.indices) : call.indices[i] < Len(call.tables)

\* the font's list names a table with the tag
ListsTag(tag) ==
  \E i \in 1..Len(call.indices) : call.tables[call.indices[i] + 1].tag = tag

\* somewhere in the font's list a loca table comes immediately after a glyf
\* table
LocaFollowsGlyf ==
  \E i \in 1..(Len(call.indices) - 1) :
    /\ call.tables[call.indices[i] + 1].tag = GLYF
    /\ call.tables[call.indices[i + 1] + 1].tag = LOCA

\* C11: CollectionDirectoryEntry::parse returns failure for every font whose
\* table-index list contains exactly one of glyf/loca, and for every font whose
\* list contains both but does not place loca immediately after glyf.
C11_GlyfLocaPairing ==
  ( /\ WholeEntryInRange
    /\ ret # NoRet
    /\ \/ ListsTag(GLYF) # ListsTag(LOCA)
       \/ ListsTag(GLYF) /\ ListsTag(LOCA) /\ ~LocaFollowsGlyf )
  => ret.res = "Err"

---------------------------------------------------------------------------
(* The loca length declared in the directory                               *)

\* the big-endian u16 at byte offset `at` of the payload of directory entry i
PayloadU16(i, at) ==
  256 * st.decompressed_data[st.table_directory[i].woff_offset + at + 1]
    + st.decompressed_data[st.table_directory[i].woff_offset + at + 2]

\* the loca length the header of the transformed glyf table i calls for:
\* numGlyphs is at offset 4, indexFormat at offset 6
ExpectedLocaLength(i) ==
  (IF PayloadU16(i, 6) = 0 THEN 2 ELSE 4) * (PayloadU16(i, 4) + 1)

\* C12: when a transformed glyf/loca pair is reconstructed, the decode fails
\* if the original length declared for the loca directory entry differs from
\* (index_format = 0 ? 2 : 4) * (num_glyphs + 1) of the transformed glyf header.
C12_LocaOrigLength ==
  outcome.res = "Ok" =>
    \A f \in 1..Len(st.collection_directory.fonts) :
      ( /\ is_some(st.collection_directory.fonts[f].glyf_idx)
        /\ is_some(st.collection_directory.fonts[f].loca_idx)
        /\ st.table_directory[unwrap(st.collection_directory.fonts[f].glyf_idx) + 1].format = 0 )
      => st.table_directory[unwrap(st.collection_directory.fonts[f].loca_idx) + 1].orig_length
           = ExpectedLocaLength(unwrap(st.collection_directory.fonts[f].glyf_idx) + 1)

---------------------------------------------------------------------------
(* Inputs and specification for decode_hmtx_table and generate_hmtx_table  *)

\* bound: the number of glyphs of a transformed hmtx input
MaxHmtxGlyphs == 3

\* test input: the advance width, the lsb stored in the table and the x_min
\* of glyph i (from 1); all different, some lsbs and x_mins negative
AdvanceWidth(i) == 500 + i
StoredLsb(i) == 25 - 10 * i
GlyphXMin(i) == 300 * i - 650

\* the two bytes of a signed 16-bit value
I16Bytes(v) == << ((v + 65536) % 65536) \div 256, (v + 65536) % 256 >>

\* the flag byte says that the lsbs of the first num_hmetrics glyphs (bit 0
\* clear) and of the other glyphs (bit 1 clear) are in the table
ProportionalLsbsPresent(flags) == (flags % 2) = 0
MonospaceLsbsPresent(flags) == ((flags \div 2) % 2) = 0

\* test input: the transformed hmtx table the flag byte describes
EncodeHmtx(flags, num_glyphs, num_hmetrics) ==
  <<flags>>
    \o Concat([i \in 1..num_hmetrics |-> put_u16(AdvanceWidth(i))])
    \o (IF ProportionalLsbsPresent(flags)
        THEN Concat([i \in 1..Min(num_hmetrics, num_glyphs) |-> I16Bytes(StoredLsb(i))])
        ELSE << >>)
    \o (IF MonospaceLsbsPresent(flags)
        THEN Concat([i \in 1..(num_glyphs - num_hmetrics) |->
                       I16Bytes(StoredLsb(num_hmetrics + i))])
        ELSE << >>)

\* flag bytes: the four values of bits 0 and 1, and reserved bits set
HmtxFlags == {0, 1, 2, 3, 4, 7, 131, 253}

HmtxInput(flags, num_glyphs, num_hmetrics, cut) ==
  [fn |-> "decode_hmtx_table", flags |-> flags, num_glyphs |-> num_glyphs,
   num_hmetrics |-> num_hmetrics,
   x_mins |-> [i \in 1..num_glyphs |-> GlyphXMin(i)],
   whole |-> EncodeHmtx(flags, num_glyphs, num_hmetrics),
   input |-> Cut(EncodeHmtx(flags, num_glyphs, num_hmetrics), cut)]

\* every flag byte, 0..MaxHmtxGlyphs glyphs, 0..MaxHmtxGlyphs+1 long metrics,
\* the table whole, cut by 1 to 3 bytes, or empty
HmtxInputs ==
  { HmtxInput(flags, num_glyphs, num_hmetrics, cut) :
      flags \in HmtxFlags, num_glyphs \in 0..MaxHmtxGlyphs,
      num_hmetrics \in 0..(MaxHmtxGlyphs + 1), cut \in {0, 1, 2, 3, 100} }

InitHmtx ==
  /\ call \in HmtxInputs
  /\ ret = NoRet
  /\ IdlePipeline

\* decode_hmtx_table(...)? followed by generate_hmtx_table(&hmtx_data)?
decode_and_generate_hmtx(hmtx_data) ==
  IF hmtx_data.res # "Ok" THEN [res |-> hmtx_data.res]
  ELSE [res |-> "Ok", hmtx_table |-> generate_hmtx_table(hmtx_data.hmtx_data)]

CallDecodeHmtxTable ==
  /\ call.fn = "decode_hmtx_table"
  /\ ret = NoRet
  /\ ret' = decode_and_generate_hmtx(
              decode_hmtx_table(call.input, call.num_glyphs, call.num_hmetrics,
                                call.x_mins))
  /\ UNCHANGED <<call, raw, brotli, pc, st, out, outcome>>

SpecHmtx == InitHmtx /\ [][CallDecodeHmtxTable]_vars

\* the input ends before the flag byte, the advance widths and the present
\* lsbs are read
HmtxInputShort ==
  Len(call.input) <
    1 + 2 * call.num_hmetrics
      + (IF ProportionalLsbsPresent(call.flags) THEN 2 * call.num_hmetrics ELSE 0)
      + (IF MonospaceLsbsPresent(call.flags)
         THEN 2 * (call.num_glyphs - call.num_hmetrics) ELSE 0)

\* C13: decode_hmtx_table, called with x_mins of length num_glyphs, returns
\* Err whenever a bit of bits 2-7 of the flag byte is set, whenever bits 0 and
\* 1 are both clear, whenever num_hmetrics < 1, whenever num_hmetrics >
\* num_glyphs, and whenever the input ends before the advance widths and the
\* present lsbs are read.
C13_HmtxRejects ==
  ( /\ call.fn = "decode_hmtx_table"
    /\ ret # NoRet
    /\ Len(call.x_mins) = call.num_glyphs
    /\ \/ (call.flags \div 4) # 0
       \/ (call.flags % 4) = 0
       \/ call.num_hmetrics < 1
       \/ call.num_hmetrics > call.num_glyphs
       \/ HmtxInputShort )
  => ret.res = "Err"

\* a table with valid flags and counts that lacks the last byte of its last
\* lsb is rejected
C13_Witness ==
  /\ call.fn = "decode_hmtx_table"
  /\ ret.res = "Err"
  /\ call.flags = 1
  /\ call.num_hmetrics = 1
  /\ call.num_glyphs = 2
  /\ Len(call.input) = Len(call.whole) - 1

\* the lsb glyph i (from 1) must get: the stored one when its array is in the
\* table, the glyph's x_min when the array was elided
ExpectedLsb(i) ==
  IF i <= call.num_hmetrics
  THEN (IF ProportionalLsbsPresent(call.flags) THEN StoredLsb(i) ELSE call.x_mins[i])
  ELSE (IF MonospaceLsbsPresent(call.flags) THEN StoredLsb(i) ELSE call.x_mins[i])

\* where the record of glyph i (from 1) starts in an hmtx table (from 0)
HmtxRecordStart(i) ==
  IF i <= call.num_hmetrics THEN 4 * (i - 1)
  ELSE 4 * call.num_hmetrics + 2 * (i - call.num_hmetrics - 1)

\* C14: after a successful decode_hmtx_table and generate_hmtx_table the
\* emitted table has length 4 * num_hmetrics + 2 * (num_glyphs - num_hmetrics)
\* and holds num_hmetrics (advance u16, lsb i16) pairs, then one lsb i16 per
\* remaining glyph; the lsb of glyph i is the value read from the input when
\* its lsb array is present and x_mins[i] when it was elided.
C14_HmtxLayout ==
  (call.fn = "decode_hmtx_table" /\ ret.res = "Ok") =>
    /\ Len(ret.hmtx_table) =
         4 * call.num_hmetrics + 2 * (call.num_glyphs - call.num_hmetrics)
    /\ \A i \in 1..call.num_glyphs :
         IF i <= call.num_hmetrics
         THEN Slice(ret.hmtx_table, HmtxRecordStart(i), HmtxRecordStart(i) + 4)
                = put_u16(AdvanceWidth(i)) \o I16Bytes(ExpectedLsb(i))
         ELSE Slice(ret.hmtx_table, HmtxRecordStart(i), HmtxRecordStart(i) + 2)
                = I16Bytes(ExpectedLsb(i))

\* a table of three glyphs and two long metrics whose first lsbs are stored
\* and whose last lsb is the glyph's x_min
C14_Witness ==
  /\ call.fn = "decode_hmtx_table"
  /\ ret.res = "Ok"
  /\ call.flags = 2
  /\ call.num_glyphs = 3
  /\ call.num_hmetrics = 2

---------------------------------------------------------------------------
(* Inputs and specification for Write255UShort and Read255UShort           *)

\* the byte that follows the encoded value in the buffer: a word code, so
\* that a decoder that reads too few or too many bytes is noticed
AfterValue == <<253>>

\* every u16 is written, and the written bytes are read back
Init255 ==
  /\ call \in { [fn |-> "Read255UShort", value |-> u,
                 written |-> Write255UShort(u)] : u \in 0..(U16 - 1) }
  /\ ret = NoRet
  /\ IdlePipeline

CallRead255UShort ==
  /\ call.fn = "Read255UShort"
  /\ ret = NoRet
  /\ ret' = Read255UShort(call.written \o AfterValue)
  /\ UNCHANGED <<call, raw, brotli, pc, st, out, outcome>>

Spec255 == Init255 /\ [][CallRead255UShort]_vars

\* C15: for every u in [0, 65535], Read255UShort of the bytes that
\* Write255UShort(u) produced yields u and consumes exactly the 1, 2 or 3
\* bytes that were written.
C15_RoundTrip255 ==
  (call.fn = "Read255UShort" /\ call.value \in 0..65535) =>
    /\ Len(call.written) \in 1..3
    /\ \A i \in 1..Len(call.written) : call.written[i] \in 0..255
    /\ ret # NoRet =>
         /\ ret.res = "Ok"
         /\ ret.v = call.value
         /\ ret.rest = AfterValue

\* a value of the second one-more-byte range is read back
C15_Witness ==
  /\ call.fn = "Read255UShort"
  /\ ret.res = "Ok"
  /\ call.value = 600
  /\ call.written = <<254, 94>>

---------------------------------------------------------------------------
(* Base128Size and StoreBase128: variable_length.rs.  The value is a W32   *)
(* word; st holds the locals n and size of Base128Size, out the bytes      *)
(* StoreBase128 stored into dst from *offset on.                           *)

\* bound: how many iterations of the loop of Base128Size the model follows
\* (size is a usize: the loop can run 2^64 times before size overflows)
MaxSizeLoop == 8

\* bound: the values 0..MaxStoreValue are stored, and the values around the
\* powers of 128 and the largest u32
MaxStoreValue == 300

\* w >> 7 of a W32 word
w32_shr7(w) == << w[1] \div 128, ((w[1] % 128) * 512) + (w[2] \div 128) >>

RECURSIVE w32_shr7s(_, _)
\* w >> (7 * k)
w32_shr7s(w, k) == IF k = 0 THEN w ELSE w32_shr7s(w32_shr7(w), k - 1)

\* byte i (from 0) of StoreBase128: ((len >> (7 * (size - i - 1))) & 0x7f),
\* with 0x80 set on every byte but the last
StoreBase128_byte(len, size, i) ==
  (w32_shr7s(len, size - i - 1)[2] % 128) + (IF i < size - 1 THEN 128 ELSE 0)

StoredValues ==
  { W32(u) : u \in 0..MaxStoreValue }
    \cup { <<0, 16383>>, <<0, 16384>>, <<31, 65535>>, <<32, 0>>, <<4095, 65535>>,
           <<4096, 0>>, <<65535, 65535>> }

InitStoreBase128 ==
  /\ call \in { [fn |-> "StoreBase128", len |-> w] : w \in StoredValues }
  /\ ret = NoRet
  /\ raw = << >>
  /\ brotli = NoRet
  /\ pc = "base128_size"
  /\ st = [n |-> call.len, size |-> 1]
  /\ out = << >>
  /\ outcome = NoRet

\* Base128Size: one iteration of `while n < 128 { n >>= 7; size += 1; }`
Base128SizeLoop ==
  /\ pc = "base128_size"
  /\ st.n[1] = 0 /\ st.n[2] < 128
  /\ st.size < MaxSizeLoop
  /\ st' = [n |-> w32_shr7(st.n), size |-> st.size + 1]
  /\ UNCHANGED <<call, ret, raw, brotli, pc, out, outcome>>

\* Base128Size: the loop condition is false and size is returned
Base128SizeReturn ==
  /\ pc = "base128_size"
  /\ ~(st.n[1] = 0 /\ st.n[2] < 128)
  /\ pc' = "store"
  /\ UNCHANGED <<call, ret, raw, brotli, st, out, outcome>>

\* StoreBase128: the loop that stores the size bytes
StoreBase128 ==
  /\ pc = "store"
  /\ out' = [i \in 1..st.size |-> StoreBase128_byte(call.len, st.size, i - 1)]
  /\ pc' = "stored"
  /\ UNCHANGED <<call, ret, raw, brotli, st, outcome>>

NextStoreBase128 == Base128SizeLoop \/ Base128SizeReturn \/ StoreBase128

SpecStoreBase128 == InitStoreBase128 /\ [][NextStoreBase128]_vars

\* C16: for every u in [0, 2^32-1], StoreBase128(u) terminates and writes
\* between 1 and 5 bytes, and ReadBase128 of those bytes yields u: the size
\* computed for u never passes 5, and the stored bytes decode to u.
C16_StoreBase128RoundTrip ==
  call.fn = "StoreBase128" =>
    /\ st.size <= 5
    /\ pc = "stored" =>
         /\ Len(out) \in 1..5
         /\ ReadBase128(out) = [res |-> "Ok", v |-> call.len, rest |-> << >>]

---------------------------------------------------------------------------
(* Inputs and specification for ReadBase128                                *)

\* bound: the number of bytes of a ReadBase128 input
MaxBase128Len == 5

\* the bytes of the inputs: terminators 0x00 and 0x7f, the leading zero 0x80,
\* 0x8f (the largest first group of a five-byte u32), 0x90 (the smallest
\* that overflows) and 0xff
Base128Bytes == {0, 127, 128, 143, 144, 255}

InitReadBase128 ==
  /\ call \in { [fn |-> "ReadBase128", input |-> b] :
                  b \in SeqsUpTo(Base128Bytes, MaxBase128Len) }
  /\ ret = NoRet
  /\ IdlePipeline

CallReadBase128 ==
  /\ call.fn = "ReadBase128"
  /\ ret = NoRet
  /\ ret' = ReadBase128(call.input)
  /\ UNCHANGED <<call, raw, brotli, pc, st, out, outcome>>

SpecReadBase128 == InitReadBase128 /\ [][CallReadBase128]_vars

RECURSIVE GroupsValue(_, _)
\* the exact value of the 7-bit groups of the first k bytes, as the pair
\* (value div 2^16, value mod 2^16); the first component is not reduced
GroupsValue(bytes, k) ==
  IF k = 0 THEN <<0, 0>>
  ELSE << GroupsValue(bytes, k - 1)[1] * 128
            + (GroupsValue(bytes, k - 1)[2] * 128 + (bytes[k] % 128)) \div 65536,
          (GroupsValue(bytes, k - 1)[2] * 128 + (bytes[k] % 128)) % 65536 >>

\* the first k bytes all have their top bit set
Continues(bytes, k) == \A i \in 1..k : bytes[i] >= 128

\* byte k is the first one whose top bit is clear
TerminatesAt(bytes, k) == k \in 1..Len(bytes) /\ bytes[k] < 128 /\ Continues(bytes, k - 1)

\* C17: ReadBase128 fails if the first byte is 0x80, if five bytes are
\* consumed without a byte whose top bit is clear, or if the value of the
\* groups read so far would exceed 2^32-1 after the next shift; when it
\* succeeds the returned u32 is the exact value of the concatenated 7-bit
\* groups, never a value wrapped modulo 2^32.
C17_ReadBase128Exact ==
  (call.fn = "ReadBase128" /\ ret # NoRet) =>
    /\ ret.res \in {"Ok", "Err"}
    /\ (Len(call.input) >= 1 /\ call.input[1] = 128) => ret.res = "Err"
    /\ (Len(call.input) >= 5 /\ Continues(call.input, 5)) => ret.res = "Err"
    /\ (\E k \in 1..(Len(call.input) - 1) :
          /\ Continues(call.input, k)
          /\ GroupsValue(call.input, k)[1] >= 512) => ret.res = "Err"
    /\ ret.res = "Ok" =>
         \E k \in 1..5 :
           /\ TerminatesAt(call.input, k)
           /\ GroupsValue(call.input, k)[1] < 65536
           /\ ret.v = GroupsValue(call.input, k)
           /\ ret.rest = DropN(call.input, k)

\* the five bytes of 2^32-1 are read back exactly
C17_Witness ==
  /\ call.fn = "ReadBase128"
  /\ call.input = <<143, 255, 255, 255, 127>>
  /\ ret.res = "Ok"
  /\ ret.v = <<65535, 65535>>

---------------------------------------------------------------------------
(* Inputs and specification for decode_triplet                             *)

\* bound: the number of flag bytes of a decode_triplet input
MaxTripletFlags == 2

\* flag bytes of each of the six cases, of both signs, on and off curve
TripletFlags == {0, 9, 11, 19, 20, 83, 85, 119, 121, 124, 127, 255}

\* the glyph stream the inputs are cut from: the first triplets get the
\* largest deltas
TripletStream == <<255, 255, 255, 255, 255, 255, 255, 255, 18, 52, 86, 120, 154>>

\* the number of data bytes of the triplet whose flag byte is flag
TripletBytes(flag) ==
  IF flag % 128 < 84 THEN 1
  ELSE IF flag % 128 < 120 THEN 2
  ELSE IF flag % 128 < 124 THEN 3
  ELSE 4

\* the number of data bytes of all the triplets
TripletsBytes(flags) == SeqSum([i \in 1..Len(flags) |-> TripletBytes(flags[i])])

\* where the running position is when the loop is entered: the origin (the
\* call starts), or a position at or next to the two ends of the signed
\* 32-bit range that earlier triplets of the same call led to
TripletStarts ==
  { <<0, 0>>,
    <<I32_MAX - 65535, 0>>, <<I32_MAX - 65534, 0>>,
    <<0, I32_MIN + 65535>>, <<0, I32_MIN + 65534>> }

InitTriplet ==
  /\ call \in { [fn |-> "decode_triplet", flags_in |-> f, start |-> p,
                 in_ |-> SubSeq(TripletStream, 1, Max(0, TripletsBytes(f) + extra))] :
                  f \in SeqsUpTo(TripletFlags, MaxTripletFlags),
                  p \in TripletStarts, extra \in {-1, 0, 1} }
  /\ ret = NoRet
  /\ IdlePipeline

\* decode_triplet from its start
CallDecodeTriplet ==
  /\ call.fn = "decode_triplet"
  /\ call.start = <<0, 0>>
  /\ ret = NoRet
  /\ ret' = decode_triplet(call.flags_in, call.in_)
  /\ UNCHANGED <<call, raw, brotli, pc, st, out, outcome>>

\* the loop of decode_triplet from a position that earlier triplets led to;
\* the earlier triplets' flags, bytes and points are left out
ResumeDecodeTriplet ==
  /\ call.fn = "decode_triplet"
  /\ call.start # <<0, 0>>
  /\ ret = NoRet
  /\ ret' = decode_triplet_loop(call.flags_in, call.in_, 0,
              [x |-> call.start[1], y |-> call.start[2], triplet_index |-> 0,
               points |-> << >>])
  /\ UNCHANGED <<call, raw, brotli, pc, st, out, outcome>>

NextTriplet == CallDecodeTriplet \/ ResumeDecodeTriplet

SpecTriplet == InitTriplet /\ [][NextTriplet]_vars

\* adding delta d to coordinate v leaves the signed 32-bit range
LeavesRange(v, d) ==
  \/ v >= 0 /\ d >= 0 /\ (v - I32_MAX) + d > 0
  \/ v < 0 /\ d < 0 /\ (v - I32_MIN) + d < 0

\* <<dx, dy>> of triplet k (from 1) of the call
DeltaOf(k) ==
  triplet_deltas(call.flags_in[k] % 128, call.in_,
                 TripletsBytes(SubSeq(call.flags_in, 1, k - 1)))

RECURSIVE RunLeavesRange(_, _, _)
\* a running sum leaves the range at triplet k or later, the position before
\* triplet k being <<x, y>>, while the stream still holds the triplet
RunLeavesRange(k, x, y) ==
  IF k > Len(call.flags_in) THEN FALSE
  ELSE IF TripletsBytes(SubSeq(call.flags_in, 1, k)) > Len(call.in_) THEN FALSE
  ELSE IF LeavesRange(x, DeltaOf(k)[1]) \/ LeavesRange(y, DeltaOf(k)[2]) THEN TRUE
  ELSE RunLeavesRange(k + 1, x + DeltaOf(k)[1], y + DeltaOf(k)[2])

\* C18: decode_triplet either fails or returns exactly one point per flag
\* byte, consumes the sum over the flags of 1 (flag & 0x7f below 84), 2 (below
\* 120), 3 (below 124) or 4 bytes, and every point is the exact running sum of
\* the deltas; it fails whenever a running sum would leave the signed 32-bit
\* range or the glyph stream is too short.
C18_TripletPoints ==
  (call.fn = "decode_triplet" /\ ret # NoRet) =>
    /\ ret.res \in {"Ok", "Err"}
    /\ Len(call.in_) < TripletsBytes(call.flags_in) => ret.res = "Err"
    /\ RunLeavesRange(1, call.start[1], call.start[2]) => ret.res = "Err"
    /\ ret.res = "Ok" =>
         /\ Len(ret.points) = Len(call.flags_in)
         /\ ret.consumed = TripletsBytes(call.flags_in)
         /\ \A k \in 1..Len(ret.points) :
              /\ ret.points[k].x =
                   call.start[1] + SeqSum([j \in 1..k |-> DeltaOf(j)[1]])
              /\ ret.points[k].y =
                   call.start[2] + SeqSum([j \in 1..k |-> DeltaOf(j)[2]])
              /\ ret.points[k].on_curve = (call.flags_in[k] < 128)

\* two four-byte triplets from the origin: both points are returned, the
\* second one at the sum of the two deltas
C18_Witness ==
  /\ call.fn = "decode_triplet"
  /\ call.start = <<0, 0>>
  /\ call.flags_in = <<127, 255>>
  /\ ret.res = "Ok"
  /\ ret.consumed = 8
  /\ ret.points[2].x = 131070

---------------------------------------------------------------------------
(* Inputs and specification for generate_loca_table                        *)

\* bound: the number of glyphs of a generate_loca_table input
MaxLocaGlyphs == 3

\* lengths a glyf table has after a glyph is added: multiples of 4, below and
\* from 131072 bytes
LocaOffsets == {0, 4, 131064, 131068, 131072, 131076, 262144}

\* the lists transform builds: the length of the glyf table before each glyph
\* and after the last one
LocaValueLists ==
  { << 0 >> \o v : v \in { w \in SeqsUpTo(LocaOffsets, MaxLocaGlyphs) :
                             \A i \in 1..(Len(w) - 1) : w[i] <= w[i + 1] } }

InitLoca ==
  /\ call \in [fn : {"generate_loca_table"}, loca_values : LocaValueLists,
               index_format : {0, 1}]
  /\ ret = NoRet
  /\ IdlePipeline

CallGenerateLocaTable ==
  /\ call.fn = "generate_loca_table"
  /\ ret = NoRet
  /\ ret' = generate_loca_table(call.loca_values, call.index_format)
  /\ UNCHANGED <<call, raw, brotli, pc, st, out, outcome>>

SpecLoca == InitLoca /\ [][CallGenerateLocaTable]_vars

\* C19: when index_format is 0, every u16 emitted into the loca table,
\* multiplied by 2, equals the corresponding glyph offset in the glyf table,
\* also for glyf tables of 131072 bytes or more.
C19_ShortLocaLossless ==
  (call.fn = "generate_loca_table" /\ ret # NoRet /\ call.index_format = 0) =>
    /\ ret.res = "Ok"
    /\ Len(ret.loca_table) = 2 * Len(call.loca_values)
    /\ \A i \in 1..Len(call.loca_values) :
         2 * (256 * ret.loca_table[2 * i - 1] + ret.loca_table[2 * i])
           = call.loca_values[i]

---------------------------------------------------------------------------
(* The output header of a collection                                       *)

\* the decode of a collection has written the output header
CollectionHeaderWritten ==
  /\ call.fn = "decompress_woff2_with_brotli"
  /\ HeaderWritten
  /\ is_collection(st.header)

\* `bytes` starts with the header of the collection: ttcf, version, numFonts,
\* the offsets of the fonts' offset tables, three zero words exactly for
\* version 0x00020000, then at each offset the offset table of the font and
\* the entries of its tables
IsCollectionHeader(bytes) ==
  /\ Slice(bytes, 0, 4) = <<116, 116, 99, 102>>
  /\ Slice(bytes, 4, 8) = put_u32(st.collection_directory.version)
  /\ Slice(bytes, 8, 12) = put_u32(Len(st.collection_directory.fonts))
  /\ \A f \in 1..Len(st.collection_directory.fonts) :
       /\ Slice(bytes, 12 + 4 * (f - 1), 12 + 4 * f) = put_u32(DirectoryStart(f))
       /\ Slice(bytes, DirectoryStart(f), DirectoryStart(f) + 4)
            = put_u32(st.collection_directory.fonts[f].flavor)
       /\ Slice(bytes, DirectoryStart(f) + 4, DirectoryStart(f) + 6)
            = put_u16(Len(st.collection_directory.fonts[f].table_indices))
       /\ \A k \in 1..Len(st.collection_directory.fonts[f].table_indices) :
            Slice(DirectoryEntry(bytes, f, k), 0, 4) =
              put_u32(st.table_directory[
                        st.collection_directory.fonts[f].table_indices[k] + 1].tag)
  /\ st.collection_directory.version = 131072 =>
       Slice(bytes, 12 + 4 * Len(st.collection_directory.fonts),
             24 + 4 * Len(st.collection_directory.fonts)) = Zeros(12)
  /\ st.collection_directory.version \in {65536, 131072}

\* C20: for a collection the generated output header is ttcf, version,
\* numFonts, numFonts u32 offsets, three zero u32s exactly when the version
\* is 0x00020000, then the per-font offset tables; the i-th offset is the
\* byte position in the output at which font i's offset table begins.
C20_CollectionHeader ==
  CollectionHeaderWritten =>
    /\ IsCollectionHeader(st.out_header.data)
    /\ IsCollectionHeader(out)
    /\ Len(st.out_header.data) =
         DirectoryStart(Len(st.collection_directory.fonts) + 1)

\* a version 0x00020000 collection of two fonts decoded to the end: the
\* second offset is 76 = 12 + 8 + 12 + (12 + 2 * 16)
C20_Witness ==
  /\ CollectionHeaderWritten
  /\ pc = "done"
  /\ outcome.res = "Ok"
  /\ st.collection_directory.version = 131072
  /\ Len(st.collection_directory.fonts) = 2
  /\ Slice(out, 16, 20) = <<0, 0, 0, 76>>

---------------------------------------------------------------------------
(* The WOFF1 decoder                                                       *)

\* TableDirectory::parse_woff1: num_tables entries of five u32 fields (tag,
\* original checksum, offset in the WOFF, compressed length, original length)
TableDirectory_parse_woff1(input, num_tables) ==
  LET r == try_get_all(input, [i \in 1..(5 * num_tables) |-> 4])
  IN IF r.res # "Ok" THEN Err
     ELSE [res |-> "Ok", rest |-> r.rest,
           tables |-> [k \in 1..num_tables |->
                         [tag |-> r.vs[5 * k - 4], orig_checksum |-> r.vs[5 * k - 3],
                          woff_offset |-> r.vs[5 * k - 2], woff_length |-> r.vs[5 * k - 1],
                          orig_length |-> r.vs[5 * k]]]]

\* the positions left in their original order
sort_by_key_unsorted(keys) == [r \in 1..Len(keys) |-> r]

\* sort_by_key, a stable sort: the positions (from 1) of the keys in
\* ascending key order, equal keys in their original order
sort_by_key(keys) ==
  [r \in 1..Len(keys) |->
     CHOOSE i \in 1..Len(keys) :
       Cardinality({ j \in 1..Len(keys) :
                       keys[j] < keys[i] \/ (keys[j] = keys[i] /\ j < i) }) = r - 1]

\* the injected closure decompress_z(compressed_data, size_hint): z selects
\* what it returns, an error, size_hint bytes or one byte less
decompress_z(z, compressed_data, size_hint) ==
  CASE z = "err" -> Err
    [] z = "short" ->
         [res |-> "Ok", v |-> [i \in 1..(size_hint - 1) |-> (Len(compressed_data) + 7 * i) % 256]]
    [] OTHER ->
         [res |-> "Ok", v |-> [i \in 1..size_hint |-> (Len(compressed_data) + 7 * i) % 256]]

RECURSIVE decompress_woff1_tables(_, _, _, _, _, _, _)
\* the loop over tables_by_offset from position k on: tables is the directory
\* in tag order, by_offset the tag indices (from 1) in woff_offset order
decompress_woff1_tables(raw_woff_data, z, tables, by_offset, k, output, checksum) ==
  IF k > Len(by_offset) THEN [res |-> "Ok", v |-> output, checksum |-> checksum]
  ELSE
    LET table == tables[by_offset[k]]
        table_offset == Len(output)
        table_end == table_offset + table.orig_length
        dir_entry_start == 12 + (by_offset[k] - 1) * 16
        dir_entry == put_u32(table.tag) \o put_u32(table.orig_checksum)
                       \o put_u32(table_offset) \o put_u32(table.orig_length)
        with_entry == SubSeq(output, 1, dir_entry_start) \o dir_entry
                        \o DropN(output, dir_entry_start + 16)
        is_compressed == table.woff_length < table.orig_length
        compressed_data == data_as_slice(table, raw_woff_data)
        data == IF compressed_data.res # "Ok" THEN Err
                ELSE IF ~is_compressed THEN compressed_data
                ELSE decompress_z(z, compressed_data.v, table.orig_length)
    IN IF data.res # "Ok" THEN Err
       ELSE IF is_compressed /\ Len(data.v) # table.orig_length THEN Err
       ELSE decompress_woff1_tables(
              raw_woff_data, z, tables, by_offset, k + 1,
              PadTo4(with_entry \o data.v),
              wrapping_add(
                wrapping_add(checksum, compute_checksum(dir_entry)),
                compute_checksum(Slice(with_entry \o data.v, table_offset, table_end))))

\* decompress_woff1_with_custom_z once the directory is sorted by tag
decompress_woff1_sorted(raw_woff_data, z, header, tables) ==
  decompress_woff1_tables(
    raw_woff_data, z, tables,
    sort_by_key([k \in 1..Len(tables) |-> tables[k].woff_offset]), 1,
    write_table_directory_header(header.flavor, Len(tables) % U16)
      \o Zeros(Len(tables) * 16),
    compute_checksum(write_table_directory_header(header.flavor, Len(tables) % U16)))

\* decompress_woff1_with_custom_z: Ok with the output (and the value the
\* local `checksum` has at the return), or Err
decompress_woff1_with_custom_z(raw_woff_data, z) ==
  LET header == WoffHeader_parse(raw_woff_data)
      table_directory ==
        TableDirectory_parse_woff1(header.rest, header.header.num_tables)
  IN IF header.res # "Ok" THEN Err
     ELSE IF header.header.woff_version # Woff1 THEN Err
     ELSE IF table_directory.res # "Ok" THEN Err
     ELSE decompress_woff1_sorted(
            raw_woff_data, z, header.header,
            [k \in 1..Len(table_directory.tables) |->
               table_directory.tables[
                 sort_by_key([j \in 1..Len(table_directory.tables) |->
                                table_directory.tables[j].tag])[k]]])

---------------------------------------------------------------------------
(* Inputs and specification for decompress_woff1_with_custom_z             *)

\* bound: the number of tables of a WOFF1 input
MaxWoff1Tables == 3

\* the tables of the WOFF1 inputs: head (its checkSumAdjustment, bytes 8..11,
\* is not zero), post, cmap and glyf, of 16, 5, 3 and 8 bytes
Woff1Table(kind) ==
  CASE kind = 1 -> [tag |-> HEAD, orig_checksum |-> 305419896,
                    data |-> <<0, 1, 0, 0, 0, 2, 0, 3, 17, 34, 51, 68, 95, 15, 60, 245>>]
    [] kind = 2 -> [tag |-> POST, orig_checksum |-> 7, data |-> <<0, 3, 0, 0, 9>>]
    [] kind = 3 -> [tag |-> TagOf(<<99, 109, 97, 112>>), orig_checksum |-> 65536,
                    data |-> <<0, 0, 1>>]
    [] OTHER -> [tag |-> GLYF, orig_checksum |-> 19088743,
                 data |-> <<1, 35, 69, 103, 137, 171, 205, 239>>]

\* the bytes a WOFF1 file stores for the table at directory position i: two
\* bytes of a compressed stream, or the table itself
Woff1Stored(dir, comp, i) ==
  IF i \in comp THEN <<120, 156>> ELSE Woff1Table(dir[i]).data

\* the offset in the WOFF1 file of the table at directory position i, when
\* the bodies are laid out in the order `body` (directory positions)
Woff1Offset(dir, body, comp, i) ==
  44 + 20 * Len(dir)
    + SeqSum([m \in 1..((CHOOSE m \in 1..Len(body) : body[m] = i) - 1) |->
                Round4(Len(Woff1Stored(dir, comp, body[m])))])

\* test input: a WOFF1 file
EncodeWoff1(dir, body, comp) ==
  EncodeWoffHeader(
    [ signature |-> WOFF1_SIG, flavor |-> TagOf(<<0, 1, 0, 0>>),
      length |-> Woff1Offset(dir, body, comp, body[Len(body)])
                   + Round4(Len(Woff1Stored(dir, comp, body[Len(body)]))),
      num_tables |-> Len(dir), reserved |-> 0, total_sfnt_size |-> 400,
      total_compressed_size |-> 0, major_version |-> 1, minor_version |-> 0,
      meta_offset |-> 0, meta_length |-> 0, meta_orig_length |-> 0,
      priv_offset |-> 0, priv_length |-> 0 ])
  \o Concat([i \in 1..Len(dir) |->
               put_u32(Woff1Table(dir[i]).tag)
                 \o put_u32(Woff1Table(dir[i]).orig_checksum)
                 \o put_u32(Woff1Offset(dir, body, comp, i))
                 \o put_u32(Len(Woff1Stored(dir, comp, i)))
                 \o put_u32(Len(Woff1Table(dir[i]).data))])
  \o Concat([m \in 1..Len(body) |-> PadTo4(Woff1Stored(dir, comp, body[m]))])

\* the orders in which the bodies of n tables are laid out in the inputs, as
\* directory positions: the directory order, its reverse, and the last
\* table first
Woff1BodyOrders(n) ==
  { [i \in 1..n |-> i], [i \in 1..n |-> n + 1 - i], [i \in 1..n |-> ((i + n - 2) % n) + 1] }

InitWoff1 ==
  /\ call \in UNION
       { { [fn |-> "decompress_woff1", dir |-> d, body |-> b, comp |-> c, z |-> z,
            input |-> EncodeWoff1(d, b, c)] :
             b \in Woff1BodyOrders(Len(d)),
             c \in {{}, {1}},
             z \in {"ok", "short", "err"} } :
           d \in { s \in SeqsUpTo({1, 2, 3, 4}, MaxWoff1Tables) :
                     /\ Len(s) > 0
                     /\ \A i, j \in 1..Len(s) : s[i] = s[j] => i = j } }
  /\ ret = NoRet
  /\ IdlePipeline

CallDecompressWoff1 ==
  /\ call.fn = "decompress_woff1"
  /\ ret = NoRet
  /\ ret' = decompress_woff1_with_custom_z(call.input, call.z)
  /\ UNCHANGED <<call, raw, brotli, pc, st, out, outcome>>

SpecWoff1 == InitWoff1 /\ [][CallDecompressWoff1]_vars

\* the WOFF1 decode has returned an output
Woff1Decoded == call.fn = "decompress_woff1" /\ ret # NoRet /\ ret.res = "Ok"

\* field w (0 tag, 1 checksum, 2 offset, 3 length) of directory entry k of
\* the returned output
Woff1Entry(k, w) == be_value(Slice(ret.v, 12 + 16 * (k - 1) + 4 * w, 16 + 16 * (k - 1) + 4 * w))

\* the directory entry of the returned output that carries tag
Woff1EntryOf(tag) == CHOOSE k \in 1..Len(call.dir) : Woff1Entry(k, 0) = tag

\* the input has a head table
Woff1HasHead == \E i \in 1..Len(call.dir) : Woff1Table(call.dir[i]).tag = HEAD

\* C21: after a successful WOFF1 decode of a font with a head table, the four
\* bytes at offset 8 of the head table in the output hold 0xB1B0AFBA minus
\* the accumulated font checksum (mod 2^32).
C21_Woff1ChecksumAdjustment ==
  (Woff1Decoded /\ Woff1HasHead) =>
    Slice(ret.v, Woff1Entry(Woff1EntryOf(HEAD), 2) + 8,
          Woff1Entry(Woff1EntryOf(HEAD), 2) + 12)
      = put_w32(wrapping_sub(B1B0AFBA, ret.checksum))

\* the body the output must hold for the table at directory position i
Woff1Body(i) ==
  IF i \in call.comp
  THEN decompress_z(call.z, <<120, 156>>, Len(Woff1Table(call.dir[i]).data)).v
  ELSE Woff1Table(call.dir[i]).data

\* C22: in the output of a successful WOFF1 decode the directory entries are
\* in ascending tag order, the bodies in ascending order of their WOFF
\* offsets, each body starts at a multiple of 4, and each entry's offset is
\* where the table's body begins and its length the table's original length.
C22_Woff1Layout ==
  Woff1Decoded =>
    /\ \A k \in 1..(Len(call.dir) - 1) : Woff1Entry(k, 0) < Woff1Entry(k + 1, 0)
    /\ \A i \in 1..Len(call.dir) :
         \E k \in 1..Len(call.dir) :
           /\ Woff1Entry(k, 0) = Woff1Table(call.dir[i]).tag
           /\ Woff1Entry(k, 3) = Len(Woff1Table(call.dir[i]).data)
           /\ Woff1Entry(k, 2) % 4 = 0
           /\ Slice(ret.v, Woff1Entry(k, 2), Woff1Entry(k, 2) + Woff1Entry(k, 3))
                = Woff1Body(i)
    /\ Woff1Entry(Woff1EntryOf(Woff1Table(call.dir[call.body[1]]).tag), 2)
         = 12 + 16 * Len(call.dir)
    /\ \A m \in 1..(Len(call.body) - 1) :
         Woff1Entry(Woff1EntryOf(Woff1Table(call.dir[call.body[m + 1]]).tag), 2)
           = Round4(Woff1Entry(Woff1EntryOf(Woff1Table(call.dir[call.body[m]]).tag), 2)
                      + Len(Woff1Table(call.dir[call.body[m]]).data))
    /\ Len(ret.v) % 4 = 0

\* three tables, none first in both orders, one of them compressed
C22_Witness ==
  /\ Woff1Decoded
  /\ call.dir = <<2, 1, 3>>
  /\ call.body = <<3, 1, 2>>
  /\ call.comp = {1}
  /\ Woff1Entry(1, 0) = TagOf(<<99, 109, 97, 112>>)
  /\ Woff1Entry(1, 2) = 60

---------------------------------------------------------------------------
(* Inputs and specification for Woff2TableDirectoryEntry::parse            *)

\* bound: the largest original length of a directory entry input
MaxEntryLength == 300

\* the tags of the entry inputs: glyf, loca, post and a tag that is not in
\* KNOWN_TABLE_TAGS
EntryTags == {GLYF, LOCA, POST, TagOf(<<122, 122, 122, 122>>)}

\* test input: the bytes of an entry; the transformed length is there only
\* for a transformed entry
EncodeEntry(e) ==
  <<KnownTagIndex(e.tag) + 64 * e.format>>
    \o (IF KnownTagIndex(e.tag) = 63 THEN put_u32(e.tag) ELSE << >>)
    \o EncodeBase128(e.orig_length)
    \o (IF is_transformed(e) THEN EncodeBase128(e.woff_length) ELSE << >>)

InitEntry ==
  /\ call \in
       { [fn |-> "Woff2TableDirectoryEntry_parse", entry |-> e, next |-> n,
          input |-> EncodeEntry(e) \o n] :
           e \in [tag : EntryTags, format : 0..3,
                  orig_length : {0, 5, 128, MaxEntryLength},
                  woff_length : {0, 3}],
           n \in {<< >>, <<1, 0, 0>>, <<191, 122, 122, 122, 121, 130, 0>>} }
  /\ ret = NoRet
  /\ IdlePipeline

CallEntryParse ==
  /\ call.fn = "Woff2TableDirectoryEntry_parse"
  /\ ret = NoRet
  /\ ret' = Woff2TableDirectoryEntry_parse(call.input)
  /\ UNCHANGED <<call, raw, brotli, pc, st, out, outcome>>

SpecEntry == InitEntry /\ [][CallEntryParse]_vars

\* C23: Woff2TableDirectoryEntry::parse reads a transformed length only for a
\* transformed entry; for an untransformed entry it consumes the flag byte,
\* the optional literal tag and the original length, sets the transformed
\* length to the original length and leaves the cursor at the next entry.
C23_TransformLengthOnlyWhenTransformed ==
  (call.fn = "Woff2TableDirectoryEntry_parse" /\ ret # NoRet) =>
    /\ ~is_transformed(call.entry) =>
         /\ ret.res = "Ok"
         /\ ret.entry.tag = call.entry.tag
         /\ ret.entry.orig_length = call.entry.orig_length
         /\ ret.entry.woff_length = call.entry.orig_length
         /\ ret.rest = call.next
    /\ (is_transformed(call.entry)
          /\ (call.entry.tag = LOCA => call.entry.woff_length = 0)) =>
         /\ ret.res = "Ok"
         /\ ret.entry.woff_length = call.entry.woff_length
         /\ ret.rest = call.next

---------------------------------------------------------------------------
(* The prerequisites of the hmtx step                                      *)

\* the table loop of reconstruct_font is about to run the hmtx branch: the
\* table lies in the decompressed data, has no metadata yet and is a
\* transformed hmtx table
AtTransformedHmtx ==
  /\ call.fn = "decompress_woff2_with_brotli"
  /\ AtTable
  /\ CurrentTable.woff_offset + CurrentTable.woff_length <= Len(st.decompressed_data)
  /\ ~is_some(st.table_metadata[CurrentIndex])
  /\ is_transformed(CurrentTable)
  /\ CurrentTable.tag = HMTX

\* C24: whenever reconstruct_font reaches a transformed hmtx table, the glyph
\* count and the x_min vector (from this font's glyf) and numLongHorMetrics
\* (from this font's hhea) are available, also in fonts with no glyf or no
\* hhea; the step never runs without them.
C24_HmtxPrerequisites ==
  AtTransformedHmtx =>
    /\ is_some(st.num_glyphs)
    /\ is_some(st.x_mins)
    /\ is_some(st.num_hmetrics)
    /\ outcome.res # "Panic"

---------------------------------------------------------------------------
(* The x_mins vector of tranform_glyf_table                                *)

\* C25: whenever tranform_glyf_table succeeds, the x_mins vector it returns
\* has exactly num_glyphs entries (the assertion of decode_hmtx_table), entry
\* i being the x_min of glyph i, whatever mix of simple, composite and empty
\* glyphs the table holds.
C25_XMinsPerGlyph ==
  (call.fn = "tranform_glyf_table" /\ ret.res = "Ok") =>
    /\ Len(ret.x_mins) = ret.num_glyphs
    /\ \A i \in 1..ret.num_glyphs :
         ret.loca_values[i] < ret.loca_values[i + 1] =>
           ret.x_mins[i] =
             as_i16(be_value(Slice(ret.glyf_table, ret.loca_values[i] + 2,
                                   ret.loca_values[i] + 4)))

---------------------------------------------------------------------------
(* Inputs and specification for the bbox checks of GlyfDecoder::transform  *)

\* glyph kinds with and without the bbox bit the contour count calls for
BboxKinds == {"empty", "empty_bbox", "composite", "composite_nobbox", "simple"}

InitBbox ==
  /\ call \in { GlyfInput(kinds, index_format, overlap, "none") :
                  kinds \in SeqsUpTo(BboxKinds, MaxGlyphs), index_format \in {0, 1},
                  overlap \in {0, 1} }
  /\ ret = NoRet
  /\ IdlePipeline

SpecBbox == InitBbox /\ [][CallTranformGlyfTable]_vars

\* C26: GlyfDecoder::transform fails for every glyph whose contour count is
\* -1 while its bit of the explicit-bbox bitmap (most significant bit of byte
\* 0 = glyph 0) is clear, and for every glyph whose contour count is 0 while
\* that bit is set; an accepted empty glyph adds no bytes to the glyf table.
C26_BboxBitChecks ==
  (call.fn = "tranform_glyf_table" /\ ret # NoRet) =>
    /\ (\E i \in 1..Len(call.kinds) :
          call.kinds[i] \in {"composite_nobbox", "empty_bbox"}) => ret.res = "Err"
    /\ ret.res = "Ok" =>
         \A i \in 1..Len(call.kinds) :
           call.kinds[i] = "empty" => ret.loca_values[i] = ret.loca_values[i + 1]

\* a composite glyph without the bbox bit after an accepted empty glyph
C26_Witness ==
  /\ call.fn = "tranform_glyf_table"
  /\ call.kinds = <<"empty", "composite_nobbox">>
  /\ ret.res = "Err"

\* an empty glyph between two glyphs is accepted and adds no bytes
C26_WitnessEmpty ==
  /\ call.fn = "tranform_glyf_table"
  /\ Len(call.kinds) = 2
  /\ call.kinds[1] = "empty"
  /\ ret.res = "Ok"
  /\ ret.loca_values[1] = ret.loca_values[2]

---------------------------------------------------------------------------
(* Inputs and specification for write_glyph_points                         *)

\* bound: the number of points of a mixed point sequence
MaxPoints == 3

\* the steps from one point to the next: none, short x, long x with short
\* negative y off curve, short negative x with long negative y
PointSteps ==
  << [dx |-> 0, dy |-> 0, on_curve |-> TRUE],
     [dx |-> 5, dy |-> 0, on_curve |-> TRUE],
     [dx |-> 300, dy |-> -7, on_curve |-> FALSE],
     [dx |-> -1, dy |-> -300, on_curve |-> TRUE] >>

\* the points reached by taking the steps numbered in steps from the origin
PointsOf(steps) ==
  [i \in 1..Len(steps) |->
     [x |-> SeqSum([j \in 1..i |-> PointSteps[steps[j]].dx]),
      y |-> SeqSum([j \in 1..i |-> PointSteps[steps[j]].dy]),
      on_curve |-> PointSteps[steps[i]].on_curve]]

InitPoints ==
  /\ call \in
       { [fn |-> "write_glyph_points", points |-> PointsOf(steps),
          has_overlap_bit |-> ov] :
           steps \in SeqsUpTo(1..Len(PointSteps), MaxPoints),
           ov \in BOOLEAN }
  /\ ret = NoRet
  /\ IdlePipeline

CallWriteGlyphPoints ==
  /\ call.fn = "write_glyph_points"
  /\ ret = NoRet
  /\ ret' = [res |-> "Ok", v |-> write_glyph_points(call.points, call.has_overlap_bit)]
  /\ UNCHANGED <<call, raw, brotli, pc, st, out, outcome>>

SpecPoints == InitPoints /\ [][CallWriteGlyphPoints]_vars

RECURSIVE ExpandFlags(_, _, _)
\* the flags that the bytes from position k on stand for by the TrueType
\* rule, until n flags are read: a byte with the repeat bit stands for
\* 1 + (the next byte) copies of the flag, any other byte for one flag
ExpandFlags(bytes, k, n) ==
  IF n <= 0 \/ k > Len(bytes) THEN << >>
  ELSE IF BitAnd(bytes[k], GLYF_REPEAT) # 0 /\ k < Len(bytes)
  THEN [i \in 1..(1 + bytes[k + 1]) |-> bytes[k] - GLYF_REPEAT]
         \o ExpandFlags(bytes, k + 2, n - 1 - bytes[k + 1])
  ELSE << bytes[k] >> \o ExpandFlags(bytes, k + 1, n - 1)

\* the flag of point i (from 1) of the call
FlagOfPoint(i) ==
  point_flag(call.points[i], i - 1, call.has_overlap_bit,
             IF i = 1 THEN 0 ELSE call.points[i - 1].x,
             IF i = 1 THEN 0 ELSE call.points[i - 1].y)

\* C27: the flag bytes emitted by write_glyph_points, expanded by the
\* TrueType rule, are exactly the per-point flags in point order: the first
\* emitted byte is the first point's flag and the number of flags
\* represented equals the number of points.
C27_FlagRunLength ==
  (call.fn = "write_glyph_points" /\ ret # NoRet /\ Len(call.points) > 0) =>
    /\ ret.v[1] \in {FlagOfPoint(1), FlagOfPoint(1) + GLYF_REPEAT}
    /\ ExpandFlags(ret.v, 1, Len(call.points))
         = [i \in 1..Len(call.points) |-> FlagOfPoint(i)]

---------------------------------------------------------------------------
(* Inputs and specification for the coordinate range of simple glyphs      *)

\* glyphs whose point lies outside the signed 16-bit range
WideKinds == {"simple_wide", "simple_low"}

InitWide ==
  /\ call \in { GlyfInput(kinds, index_format, overlap, "none") :
                  kinds \in SeqsUpTo(WideKinds \cup {"simple", "empty"}, MaxGlyphs),
                  index_format \in {0, 1}, overlap \in {0, 1} }
  /\ ret = NoRet
  /\ IdlePipeline

SpecWide == InitWide /\ [][CallTranformGlyfTable]_vars

\* C28: a simple glyph whose decoded point coordinates, computed bounding
\* box or coordinate deltas do not fit a signed 16-bit integer is rejected;
\* no bbox value or long coordinate delta truncated from a value outside
\* [-32768, 32767] is emitted.
C28_CoordinatesFitI16 ==
  (call.fn = "tranform_glyf_table" /\ ret # NoRet
     /\ \E i \in 1..Len(call.kinds) : call.kinds[i] \in WideKinds) =>
    ret.res = "Err"

---------------------------------------------------------------------------
(* Inputs and specification for write_table_directory_header               *)

\* bound: the largest of the consecutive table counts of the inputs
MaxNumTables == 100

InitDirectoryHeader ==
  /\ call \in [fn : {"write_table_directory_header"},
               flavor : {TagOf(<<0, 1, 0, 0>>)},
               num_tables : (1..MaxNumTables)
                              \cup { 2^k - 1 : k \in 8..16 } \cup { 2^k : k \in 8..15 }]
  /\ ret = NoRet
  /\ IdlePipeline

CallWriteTableDirectoryHeader ==
  /\ call.fn = "write_table_directory_header"
  /\ ret = NoRet
  /\ ret' = [res |-> "Ok",
             v |-> write_table_directory_header(call.flavor, call.num_tables)]
  /\ UNCHANGED <<call, raw, brotli, pc, st, out, outcome>>

SpecDirectoryHeader == InitDirectoryHeader /\ [][CallWriteTableDirectoryHeader]_vars

\* the integer part of the base-2 logarithm of n in 1..65535
FloorLog2(n) == CHOOSE e \in 0..15 : 2^e <= n /\ n < 2^(e + 1)

\* C29: for every table count N in 1..65535, write_table_directory_header
\* emits entrySelector = floor(log2 N), searchRange = 16 * 2^floor(log2 N)
\* and rangeShift = 16 * N - searchRange as its three u16 fields, no value
\* wrapped or truncated.
C29_SearchFields ==
  (call.fn = "write_table_directory_header" /\ ret # NoRet) =>
    /\ Len(ret.v) = 12
    /\ be_value(Slice(ret.v, 4, 6)) = call.num_tables
    /\ be_value(Slice(ret.v, 6, 8)) = 16 * 2^FloorLog2(call.num_tables)
    /\ be_value(Slice(ret.v, 8, 10)) = FloorLog2(call.num_tables)
    /\ be_value(Slice(ret.v, 10, 12))
         = 16 * call.num_tables - 16 * 2^FloorLog2(call.num_tables)

\* the same for the table counts below 4096
C29_SearchFieldsBelow4096 ==
  call.num_tables < 4096 => C29_SearchFields

---------------------------------------------------------------------------
(* Inputs and specification for the reuse of table metadata                *)

\* the shared tables of the collection inputs: head, two post tables, glyf
\* and loca
SharedTables ==
  << HeadTable(1, 14), PostTable(1, MaxPostLen), PostTable(2, 3),
     GlyfTable(Glyphs(<<"simple">>, 0, 0, "none")), LocaTable(0) >>

\* the fonts of the collection inputs, as lists of table indices: a shared
\* head, a table listed twice by the first font, a shared glyf/loca pair, a
\* table listed twice by the second font
SharedFonts ==
  { << <<0, 1>>, <<0, 2>> >>,
    << <<0, 0>> >>,
    << <<1, 1>>, <<0>> >>,
    << <<3, 4>>, <<3, 4, 1>> >>,
    << <<0, 3, 4>>, <<3, 4, 0>> >>,
    << <<1>>, <<1, 1>> >>,
    << <<2>>, <<0, 2>> >> }

\* the table lists of the single-font inputs: glyf and loca, and two glyf
\* tables before the loca table
SharedSingleTables ==
  { << GlyfTable(Glyphs(<<"simple">>, 0, 0, "none")), LocaTable(0) >>,
    << HeadTable(1, 14), PostTable(1, MaxPostLen) >>,
    << GlyfTable(Glyphs(<<"simple">>, 0, 0, "none")),
       GlyfTable(Glyphs(<<"simple2", "simple">>, 0, 0, "none")), LocaTable(0) >> }

InitShared ==
  /\ call \in
       { DecodeInput(TagOf(<<0, 1, 0, 0>>), tables, << >>, << >>, 1, 0, 1, oc) :
           tables \in SharedSingleTables, oc \in BOOLEAN }
       \cup
       { DecodeInput(TTC_COLLECTION_FLAVOR, SharedTables, fonts,
                     EncodeCollection(version, fonts), 1, 0, 1, oc) :
           fonts \in SharedFonts, version \in {TTC_VERSION_1, TTC_VERSION_2},
           oc \in BOOLEAN }
  /\ ret = NoRet
  /\ raw = call.input
  /\ brotli = call.decompressor
  /\ pc = "header"
  /\ st = InitLocals
  /\ out = << >>
  /\ outcome = NoRet

SpecShared == InitShared /\ [][NextDecode]_vars

\* a populated metadata slot keeps its record
SlotsKept ==
  \A i \in 1..Len(st.table_metadata) :
    is_some(st.table_metadata[i]) => st.table_metadata'[i] = st.table_metadata[i]

\* the table the loop is at has its metadata already
AtPopulatedSlot == AtTable /\ outcome = NoRet /\ is_some(st.table_metadata[CurrentIndex])

\* a step of the table loop at a populated slot writes no body, and in the
\* first font it is taken only for loca
ReuseStep ==
  (AtPopulatedSlot /\ st'.table_pos = st.table_pos + 1) =>
    /\ out' = out
    /\ st.font_idx = 0 => CurrentTable.tag = LOCA

\* C30: during a WOFF2 decode a populated metadata slot is never overwritten
\* and the table's body is written once; every later occurrence of the table
\* reuses the record, and in the first font a populated slot is accepted only
\* for loca.
C30_MetadataWrittenOnce == [][SlotsKept /\ ReuseStep]_vars

\* the same without the slots of loca tables
C30_NonLocaSlotsKept ==
  [][ /\ \A i \in 1..Len(st.table_metadata) :
           (is_some(st.table_metadata[i]) /\ st.table_directory[i].tag # LOCA)
             => st.table_metadata'[i] = st.table_metadata[i]
      /\ ReuseStep ]_vars

====
